---- MODULE Spec2Model ----
(***************************************************************************)
(* Model of the column profiler of the SAP Datasphere MCP server           *)
(* (src/src/sap_datasphere_mcp/tools/tasks.py, profile_column) together    *)
(* with the part of DatasphereClient.preview_asset_data that turns the     *)
(* backend's JSON rows into the QueryResult the profiler consumes.         *)
(*                                                                         *)
(* Representation choices                                                  *)
(*  - Text (Python str) is a sequence of character codes (ASCII), so that  *)
(*    str(), lower(), substring tests, lexicographic comparison and        *)
(*    float() parsing are computed, not assumed.                           *)
(*  - A Python float is an extended rational [n, d]: d > 0 is the finite   *)
(*    value n/d in lowest terms, d = 0 with n = 1 / -1 is +inf / -inf and  *)
(*    d = 0 with n = 0 is NaN.  Arithmetic and comparisons follow IEEE 754 *)
(*    for the special values.  Finite arithmetic is exact, which is what   *)
(*    binary64 gives for the magnitudes modelled here (small integers and  *)
(*    their quarter / eighth fractions); the two places where binary64     *)
(*    rounding changes a result (int(0.7 * n)) are modelled explicitly.    *)
(*  - Optional[...] is a sequence of length 0 (None) or 1 (the value).     *)
(***************************************************************************)
EXTENDS Integers, Sequences, FiniteSets, TLC

----------------------------------------------------------------------------
(* Generic helpers *)

Absent == << >>

Some(x) == << x >>

Range(s) == { s[i] : i \in 1..Len(s) }

Abs(i) == IF i < 0 THEN -i ELSE i

Max2(a, b) == IF a >= b THEN a ELSE b

RECURSIVE GCD(_, _)
GCD(a, b) == IF b = 0 THEN a ELSE GCD(b, a % b)

Reverse(s) == [ i \in 1..Len(s) |-> s[Len(s) + 1 - i] ]

\* The loop  for x in xs[lo..hi]: acc = f(acc, x)  and its final acc.  The
\* range is walked left to right, split in halves to keep the evaluation
\* shallow; the test on `left` makes the first half be computed before the
\* second half starts.
RECURSIVE Loop(_, _, _, _, _)
Loop(f(_, _), xs, acc, lo, hi) ==
    IF lo > hi THEN acc
    ELSE IF lo = hi THEN f(acc, xs[lo])
    ELSE LET mid  == (lo + hi) \div 2
             left == Loop(f, xs, acc, lo, mid)
         IN  IF left = left THEN Loop(f, xs, left, mid + 1, hi) ELSE acc

----------------------------------------------------------------------------
(* Python float: extended rationals with IEEE 754 special values *)

NaN == [n |-> 0, d |-> 0]

PosInf == [n |-> 1, d |-> 0]

NegInf == [n |-> -1, d |-> 0]

Fin(i) == [n |-> i, d |-> 1]

IsNaN(x) == x.d = 0 /\ x.n = 0

IsInf(x) == x.d = 0 /\ x.n # 0

IsFinite(x) == x.d > 0

Sign(i) == IF i > 0 THEN 1 ELSE IF i < 0 THEN -1 ELSE 0

Rat(num, den) ==
    LET g == GCD(Abs(num), den)
    IN  [n |-> num \div g, d |-> den \div g]

FNeg(x) == [n |-> -x.n, d |-> x.d]

FAdd(x, y) ==
    IF IsNaN(x) \/ IsNaN(y) THEN NaN
    ELSE IF IsInf(x) /\ IsInf(y) THEN (IF x.n = y.n THEN x ELSE NaN)
    ELSE IF IsInf(x) THEN x
    ELSE IF IsInf(y) THEN y
    ELSE Rat(x.n * y.d + y.n * x.d, x.d * y.d)

FSub(x, y) == FAdd(x, FNeg(y))

FMul(x, y) ==
    IF IsNaN(x) \/ IsNaN(y) THEN NaN
    ELSE IF IsInf(x) \/ IsInf(y)
         THEN (IF x.n = 0 \/ y.n = 0 THEN NaN
               ELSE [n |-> Sign(x.n) * Sign(y.n), d |-> 0])
    ELSE Rat(x.n * y.n, x.d * y.d)

\* x / k for a positive integer k
FDivInt(x, k) == IF IsFinite(x) THEN Rat(x.n, x.d * k) ELSE x

\* x < y; every comparison with NaN is false
FLt(x, y) ==
    IF IsNaN(x) \/ IsNaN(y) THEN FALSE
    ELSE IF IsInf(x) THEN x.n < 0 /\ y # x
    ELSE IF IsInf(y) THEN y.n > 0
    ELSE x.n * y.d < y.n * x.d

\* x == y; NaN is not equal to itself
FEq(x, y) == ~IsNaN(x) /\ ~IsNaN(y) /\ x = y

FLe(x, y) == FLt(x, y) \/ FEq(x, y)

----------------------------------------------------------------------------
(* Python str: sequences of ASCII codes *)

IsDigit(c) == c \in 48..57

\* str.lower() on ASCII text
Lower(s) == [ i \in 1..Len(s) |-> IF s[i] \in 65..90 THEN s[i] + 32 ELSE s[i] ]

\* needle in hay
Contains(hay, needle) ==
    \E i \in 0..(Len(hay) - Len(needle)) :
        SubSeq(hay, i + 1, i + Len(needle)) = needle

\* a < b for str: lexicographic by code point, a proper prefix is smaller
StrLt(a, b) ==
    \E k \in 1..Len(b) :
        /\ k <= Len(a) + 1
        /\ \A j \in 1..(k - 1) : a[j] = b[j]
        /\ (k = Len(a) + 1 \/ a[k] < b[k])

RECURSIVE Digits(_)
Digits(i) ==
    IF i < 10 THEN << 48 + i >> ELSE Digits(i \div 10) \o << 48 + (i % 10) >>

\* str(i) for an int
IntToStr(i) == IF i < 0 THEN << 45 >> \o Digits(-i) ELSE Digits(i)

RECURSIVE DigitsValue(_)
DigitsValue(s) ==
    IF s = << >> THEN 0
    ELSE 10 * DigitsValue(SubSeq(s, 1, Len(s) - 1)) + (s[Len(s)] - 48)

sNan == << 110, 97, 110 >>

sInf == << 105, 110, 102 >>

sInfinity == << 105, 110, 102, 105, 110, 105, 116, 121 >>

\* float(s) for text over the alphabet {sign, digit, letter}: an optional sign
\* followed by decimal digits, or by nan / inf / infinity in any letter case;
\* anything else raises ValueError (Absent).  Decimal points, exponents,
\* underscores and surrounding blanks are outside the modelled alphabet.
ParseFloat(s) ==
    LET signed == s # << >> /\ s[1] \in {43, 45}
        neg    == signed /\ s[1] = 45
        body   == Lower(IF signed THEN Tail(s) ELSE s)
    IN  IF body = sNan THEN Some(NaN)
        ELSE IF body \in {sInf, sInfinity}
             THEN Some(IF neg THEN NegInf ELSE PosInf)
        ELSE IF body # << >> /\ \A i \in 1..Len(body) : IsDigit(body[i])
             THEN Some(Fin(IF neg THEN -DigitsValue(body) ELSE DigitsValue(body)))
        ELSE Absent

----------------------------------------------------------------------------
(* Python values found in a JSON row: None, int, str *)

PyNone == [t |-> "NoneType", i |-> 0, s |-> << >>]

PyInt(k) == [t |-> "int", i |-> k, s |-> << >>]

PyStr(txt) == [t |-> "str", i |-> 0, s |-> txt]

\* type(v).__name__
TypeName(v) == v.t

sNone == << 78, 111, 110, 101 >>

\* str(v)
StrOf(v) ==
    IF v.t = "int" THEN IntToStr(v.i)
    ELSE IF v.t = "NoneType" THEN sNone
    ELSE v.s

\* the numeric coercion of one non-null value: Some(float) or Absent
ToFloat(v) == IF v.t = "int" THEN Some(Fin(v.i)) ELSE ParseFloat(StrOf(v))

----------------------------------------------------------------------------
(* sorted(): CPython's list sort on a short list.  A list of fewer than 64   *)
(* items is sorted by taking the initial run (reversed when it is strictly   *)
(* descending) and inserting the remaining items by binary search; only the  *)
(* < comparison is used.  Longer lists merge several such runs, which gives  *)
(* the same (unique, stable) result whenever < is a total preorder on the    *)
(* keys, as it is for every list here that has no NaN in it.                 *)
(* The list is a sequence of indices, lt[i][j] says key i < key j.           *)

\* the run that starts s goes on while each item compares to the one before
\* it as the second does to the first; its length
RunEnd(lt, s, descending) ==
    LET stops == { k \in 2..Len(s) :
                     k = Len(s) \/ lt[s[k + 1]][s[k]] # descending }
    IN  CHOOSE k \in stops : \A j \in stops : k <= j

\* count_run: <<length of the initial run, whether it is descending>>
CountRun(lt, s) ==
    IF Len(s) <= 1 THEN << Len(s), FALSE >>
    ELSE LET descending == lt[s[2]][s[1]]
         IN  << RunEnd(lt, s, descending), descending >>

RECURSIVE BinarySearch(_, _, _, _, _)
BinarySearch(lt, s, pivot, l, r) ==
    IF l >= r THEN l
    ELSE LET p == l + ((r - l) \div 2)
         IN  IF lt[pivot][s[p]]
             THEN BinarySearch(lt, s, pivot, l, p)
             ELSE BinarySearch(lt, s, pivot, p + 1, r)

\* one step of binarysort: the item at position start moves into the sorted
\* prefix before it
InsertAt(lt, s, start) ==
    LET pivot == s[start]
        pos   == BinarySearch(lt, s, pivot, 1, start)
    IN  SubSeq(s, 1, pos - 1) \o << pivot >> \o SubSeq(s, pos, start - 1)
            \o SubSeq(s, start + 1, Len(s))

\* binarysort: the items after the first k are inserted one after the other
BinarySort(lt, s, k) ==
    Loop(LAMBDA cur, start : InsertAt(lt, cur, start),
         [ i \in 1..Len(s) |-> i ], s, k + 1, Len(s))

ListSort(lt, s) ==
    LET run == CountRun(lt, s)
        s1  == IF run[2]
               THEN Reverse(SubSeq(s, 1, run[1])) \o SubSeq(s, run[1] + 1, Len(s))
               ELSE s
    IN  BinarySort(lt, s1, run[1])

\* sorted(items, reverse=...): the permutation of 1..n it produces;
\* reverse=True reverses the list before and after the ascending sort
SortedIndices(lt, n, reverse) ==
    LET idx == [ i \in 1..n |-> i ]
    IN  IF reverse THEN Reverse(ListSort(lt, Reverse(idx))) ELSE ListSort(lt, idx)

----------------------------------------------------------------------------
(* profile_column: the computation on the fetched sample *)

\* tasks.py:1004, cap of example_values
ExampleCap == 20

\* tasks.py:1079, cardinality up to which a categorical summary is always given
CategoricalMaxUnique == 50

\* tasks.py:1082, cap of top_values
TopValuesCap == 20

\* tasks.py:1108, least distinct count a measure must exceed
MeasureMinDistinct == 5

\* tasks.py:1111, distinct count a dimension may always have
DimensionMinBound == 50

\* values = [row[0] for row in qr.rows if row]
ColumnValues(rows) ==
    LET kept == SelectSeq(rows, LAMBDA r : Len(r) > 0)
    IN  [ i \in 1..Len(kept) |-> kept[i][1] ]

\* a filter that drops nothing
NonNullValuesKeepAll(values) == values

\* non_null_values = [v for v in values if v is not None]
NonNullValues(values) == SelectSeq(values, LAMBDA v : v # PyNone)

\* the loop that collects example values: first-seen order, no duplicates;
\* the loop is left once ExampleCap values are held, so later values add
\* nothing
DistinctValues(nn) ==
    Loop(LAMBDA acc, v : IF Len(acc) >= ExampleCap \/ v \in Range(acc)
                         THEN acc ELSE Append(acc, v),
         nn, << >>, 1, Len(nn))

\* the keys of a dict filled by one pass over seq, in insertion order
DictKeys(seq) ==
    Loop(LAMBDA acc, v : IF v \in Range(acc) THEN acc ELSE Append(acc, v),
         seq, << >>, 1, Len(seq))

\* the count such a dict holds for key x
CountOf(seq, x) == Cardinality({ i \in 1..Len(seq) : seq[i] = x })

\* the types as the dict holds them, unsorted
OrderedTypesFirstSeen(nn) == DictKeys([ i \in 1..Len(nn) |-> TypeName(nn[i]) ])

\* ordered_types = sorted(type_counts.keys(), key=count, reverse=True)
OrderedTypes(nn) ==
    LET types == [ i \in 1..Len(nn) |-> TypeName(nn[i]) ]
        keys  == DictKeys(types)
        cnt   == [ i \in 1..Len(keys) |-> CountOf(types, keys[i]) ]
        lt    == [ i \in 1..Len(keys) |-> [ j \in 1..Len(keys) |-> cnt[i] < cnt[j] ] ]
        perm  == SortedIndices(lt, Len(keys), TRUE)
    IN  [ k \in 1..Len(keys) |-> keys[perm[k]] ]

\* a coercion that takes 0.0 for a value that is no number
NumericLikeZeroed(nn) ==
    [ i \in 1..Len(nn) |-> IF ToFloat(nn[i]) = Absent THEN Fin(0) ELSE ToFloat(nn[i])[1] ]

\* numeric_like: float(v) of every non-null value that coerces, in sample order
NumericLike(nn) ==
    LET ok == SelectSeq(nn, LAMBDA v : ToFloat(v) # Absent)
    IN  [ i \in 1..Len(ok) |-> ToFloat(ok[i])[1] ]

\* sorted(numeric_like)
SortedFloats(xs) ==
    LET lt   == [ i \in 1..Len(xs) |-> [ j \in 1..Len(xs) |-> FLt(xs[i], xs[j]) ] ]
        perm == SortedIndices(lt, Len(xs), FALSE)
    IN  [ k \in 1..Len(xs) |-> xs[perm[k]] ]

\* a percentile that takes the lower neighbour instead of interpolating
PercentileLowerNeighbour(srt, p) ==
    IF srt = << >> THEN Absent
    ELSE Some(srt[((p * (Len(srt) - 1)) \div 100) + 1])

\* _percentile(p) over numeric_like_sorted; p is 25, 50 or 75, for which
\* (p / 100.0) * (count - 1) is exact in binary64
Percentile(srt, p) ==
    LET count == Len(srt)
        pos   == Rat(p * (count - 1), 100)
        lower == pos.n \div pos.d
        upper == IF pos.d = 1 THEN lower ELSE lower + 1
        frac  == FSub(pos, Fin(lower))
    IN  IF count = 0 THEN Absent
        ELSE IF count = 1 THEN Some(srt[1])
        ELSE IF lower = upper THEN Some(srt[lower + 1])
        ELSE Some(FAdd(srt[lower + 1],
                       FMul(FSub(srt[upper + 1], srt[lower + 1]), frac)))

\* min(xs): an item replaces the current minimum when it compares < it
PyMin(xs) == Loop(LAMBDA m, x : IF FLt(x, m) THEN x ELSE m, xs, xs[1], 2, Len(xs))

\* max(xs): an item replaces the current maximum when it compares > it
PyMax(xs) == Loop(LAMBDA m, x : IF FLt(m, x) THEN x ELSE m, xs, xs[1], 2, Len(xs))

\* sum(xs), added left to right from 0
PySum(xs) == Loop(FAdd, xs, Fin(0), 1, Len(xs))

\* outlier_count = sum(1 for x in sorted if x < lower_fence or x > upper_fence)
OutlierCount(srt, lower_fence, upper_fence) ==
    Cardinality({ i \in 1..Len(srt) :
                    FLt(srt[i], lower_fence) \/ FLt(upper_fence, srt[i]) })

\* numeric_summary: Absent (None) when no value coerces to a number
NumericSummary(nn) ==
    LET numeric_like == NumericLike(nn)
        srt   == SortedFloats(numeric_like)
        count == Len(srt)
        p25   == Percentile(srt, 25)
        p50   == Percentile(srt, 50)
        p75   == Percentile(srt, 75)
        have  == p25 # Absent /\ p75 # Absent
        iqr   == FSub(p75[1], p25[1])
        lower_fence == FSub(p25[1], FMul(Rat(3, 2), iqr))
        upper_fence == FAdd(p75[1], FMul(Rat(3, 2), iqr))
    IN  IF numeric_like = << >> THEN Absent
        ELSE Some([ min   |-> PyMin(srt),
                    max   |-> PyMax(srt),
                    mean  |-> FDivInt(PySum(srt), count),
                    p25   |-> p25,
                    p50   |-> p50,
                    p75   |-> p75,
                    iqr   |-> IF have THEN Some(iqr) ELSE Absent,
                    lower_fence |-> IF have THEN Some(lower_fence) ELSE Absent,
                    upper_fence |-> IF have THEN Some(upper_fence) ELSE Absent,
                    outlier_count |->
                        IF have THEN Some(OutlierCount(srt, lower_fence, upper_fence))
                        ELSE Absent ])

\* a gate that looks at the cardinality cap alone
CategoricalGateCapOnly(unique_values, non_null_count) ==
    unique_values <= CategoricalMaxUnique

\* the gate of the categorical summary
CategoricalGate(unique_values, non_null_count) ==
    \/ unique_values <= CategoricalMaxUnique
    \/ unique_values <= Max2(1, non_null_count \div 2)

\* items sorted by descending count alone, ties left in insertion order
SortedItemsByCountOnly(keys, cnt) ==
    LET lt == [ i \in 1..Len(keys) |-> [ j \in 1..Len(keys) |-> -cnt[i] < -cnt[j] ] ]
        perm == SortedIndices(lt, Len(keys), FALSE)
    IN  [ k \in 1..Len(keys) |-> [ value |-> keys[perm[k]], count |-> cnt[perm[k]] ] ]

\* sorted(freq.items(), key=lambda item: (-item[1], str(item[0]))): the tuple
\* keys compare by their first differing component
SortedItems(keys, cnt) ==
    LET lt == [ i \in 1..Len(keys) |-> [ j \in 1..Len(keys) |->
                  \/ -cnt[i] < -cnt[j]
                  \/ (cnt[i] = cnt[j] /\ StrLt(StrOf(keys[i]), StrOf(keys[j]))) ] ]
        perm == SortedIndices(lt, Len(keys), FALSE)
    IN  [ k \in 1..Len(keys) |-> [ value |-> keys[perm[k]], count |-> cnt[perm[k]] ] ]

\* categorical_summary: Absent (None) without non-null values or past the gate
CategoricalSummary(nn) ==
    LET keys == DictKeys(nn)
        cnt  == [ i \in 1..Len(keys) |-> CountOf(nn, keys[i]) ]
        unique_values  == Len(keys)
        non_null_count == Len(nn)
        sorted_items   == SortedItems(keys, cnt)
        shown      == SubSeq(sorted_items, 1,
                             IF Len(sorted_items) < TopValuesCap
                             THEN Len(sorted_items) ELSE TopValuesCap)
        top_values == [ k \in 1..Len(shown) |->
                          [ value    |-> shown[k].value,
                            count    |-> shown[k].count,
                            fraction |-> Rat(shown[k].count, non_null_count) ] ]
    IN  IF nn = << >> THEN Absent
        ELSE IF ~CategoricalGate(unique_values, non_null_count) THEN Absent
        ELSE Some([ total_sampled |-> non_null_count,
                    unique_values |-> unique_values,
                    top_values    |-> top_values,
                    concentration |-> IF top_values = << >> THEN Absent
                                      ELSE Some(top_values[1].fraction) ])

\* the name tokens of the identifier rule: "id", "_id", "key", "_key"
IdTokens ==
    { << 105, 100 >>, << 95, 105, 100 >>,
      << 107, 101, 121 >>, << 95, 107, 101, 121 >> }

\* int(0.9 * n): binary64 gives floor(9n/10) for every n up to the row caps
IntNineTenths(n) == (9 * n) \div 10

\* int(0.5 * n)
IntHalf(n) == n \div 2

RECURSIVE Pow2Floor(_)
Pow2Floor(k) == IF k < 2 THEN 1 ELSE 2 * Pow2Floor(k \div 2)

\* int(0.7 * n).  The binary64 nearest to 0.7 lies below 0.7 by 0.2 * 2^-52,
\* so when 7n/10 is an integer K the product is below K by n * 0.2 * 2^-52 and
\* rounds to the float under K, hence truncates to K - 1, exactly when that
\* gap exceeds half the spacing of the floats under K: 4K > 7 * 2^floor(lg K).
IntSevenTenths(n) ==
    LET k == (7 * n) \div 10
    IN  IF n % 10 = 0 /\ k > 0 /\ 4 * k > 7 * Pow2Floor(k) THEN k - 1 ELSE k

\* an identifier rule that asks for a full 90% of distinct values
IdRuleExactShare(column_name, distinct_non_null, non_null_count) ==
    /\ \E token \in IdTokens : Contains(Lower(column_name), token)
    /\ 10 * distinct_non_null >= 9 * non_null_count

\* the identifier rule
IdRule(column_name, distinct_non_null, non_null_count) ==
    /\ \E token \in IdTokens : Contains(Lower(column_name), token)
    /\ distinct_non_null >= Max2(1, IntNineTenths(non_null_count))

\* a measure rule that also accepts the threshold itself
MeasureRuleInclusive(distinct_non_null, non_null_count) ==
    distinct_non_null >= Max2(MeasureMinDistinct, IntHalf(non_null_count))

\* the measure rule's cardinality test
MeasureRule(distinct_non_null, non_null_count) ==
    distinct_non_null > Max2(MeasureMinDistinct, IntHalf(non_null_count))

\* the dimension rule's cardinality test
DimensionRule(distinct_non_null, non_null_count) ==
    distinct_non_null <= Max2(DimensionMinBound, IntSevenTenths(non_null_count))

\* role_hint
RoleHint(column_name, nn) ==
    LET non_null_count    == Len(nn)
        distinct_non_null == IF nn = << >> THEN 0 ELSE Cardinality(Range(nn))
        is_numeric        == NumericLike(nn) # << >>
    IN  IF non_null_count > 0
        THEN IF IdRule(column_name, distinct_non_null, non_null_count)
             THEN Some("id")
             ELSE IF is_numeric
             THEN (IF MeasureRule(distinct_non_null, non_null_count)
                   THEN Some("measure") ELSE Absent)
             ELSE (IF DimensionRule(distinct_non_null, non_null_count)
                   THEN Some("dimension") ELSE Absent)
        ELSE Absent

\* the dict profile_column returns for a sample that has columns
Profile(column_name, qr, requested_top, eff_top, cap_top, cap_applied) ==
    LET values == ColumnValues(qr.rows)
        total  == Len(values)
        nn     == NonNullValues(values)
        null_count == total - Len(nn)
        distinct_values == DistinctValues(nn)
        ordered_types   == OrderedTypes(nn)
    IN  [ column           |-> column_name,
          types            |-> IF ordered_types = << >> THEN Absent ELSE Some(ordered_types),
          total_count      |-> total,
          null_count       |-> null_count,
          non_null_count   |-> total - null_count,
          distinct_sampled |-> Len(distinct_values),
          example_values   |-> IF distinct_values = << >> THEN Absent
                               ELSE Some(distinct_values),
          numeric_summary     |-> NumericSummary(nn),
          categorical_summary |-> CategoricalSummary(nn),
          role_hint        |-> RoleHint(column_name, nn),
          meta |-> [ column_name   |-> column_name,
                     sample_rows   |-> total,
                     truncated     |-> qr.truncated,
                     requested_top |-> requested_top,
                     effective_top |-> eff_top,
                     cap_top       |-> cap_top,
                     cap_applied   |-> cap_applied ] ]

----------------------------------------------------------------------------
(* Row cap and the client's preview *)

\* config.py:68 / config.py:94, DATASPHERE_MAX_ROWS_PROFILE when unset
MaxRowsProfileDefault == 500

\* _cap_int(value, cap, min_value): <<effective, cap_applied>>
CapInt(value, cap, min_value) ==
    IF value < min_value THEN << min_value, TRUE >>
    ELSE IF cap > 0 /\ value > cap THEN << cap, TRUE >>
    ELSE << value, FALSE >>

\* The backend's answer to GET ...?$top=<top>&$select=<column>: the first
\* `top` rows of the asset, each a JSON object holding the selected column.
BackendRows(asset_rows, top_param) ==
    SubSeq(asset_rows, 1, IF Len(asset_rows) < top_param THEN Len(asset_rows) ELSE top_param)

\* DatasphereClient.preview_asset_data, from response.json() on: no row gives
\* a result without columns; otherwise the columns are the keys of the first
\* row and truncated says that as many rows came back as were asked for.
QueryResultOf(column, raw_rows, top_param) ==
    IF raw_rows = << >>
    THEN [ columns |-> << >>, rows |-> << >>, truncated |-> FALSE ]
    ELSE [ columns   |-> << column >>,
           rows      |-> [ i \in 1..Len(raw_rows) |-> << raw_rows[i] >> ],
           truncated |-> Len(raw_rows) >= top_param ]

----------------------------------------------------------------------------
(* Inputs *)

\* longest freely chosen sample
MaxLen == 3

\* most distinct values in a generated wide sample
MaxDistinct == 52

nAMOUNT == << 65, 77, 79, 85, 78, 84 >>

nSTATUS == << 83, 84, 65, 84, 85, 83 >>

nCUSTOMER_ID == << 67, 85, 83, 84, 79, 77, 69, 82, 95, 73, 68 >>

nPartKey == << 80, 97, 114, 116, 75, 101, 121 >>

ColumnNames == { nAMOUNT, nSTATUS, nCUSTOMER_ID, nPartKey }

sOPEN == << 79, 80, 69, 78 >>

sCLOSED == << 67, 76, 79, 83, 69, 68 >>

sPENDING == << 80, 69, 78, 68, 73, 78, 71 >>

\* the values a freely chosen sample is made of: null, 9, 10, "10", "ab",
\* "nan", "inf"
ShortValues ==
    { PyNone, PyInt(9), PyInt(10), PyStr(<< 49, 48 >>), PyStr(<< 97, 98 >>),
      PyStr(sNan), PyStr(sInf) }

ShortSamples == UNION { [ 1..n -> ShortValues ] : n \in 0..MaxLen }

\* d distinct values followed by r repetitions of the first of them; the
\* values are the ints 1..d, or the texts "k1".."kd" when as_text
Ramp(as_text, d, r) ==
    LET val(i) == IF as_text THEN PyStr(<< 107 >> \o IntToStr(i)) ELSE PyInt(i)
    IN  [ i \in 1..(d + r) |-> IF i <= d THEN val(i) ELSE val(1) ]

RampDistinct == { d \in 1..MaxDistinct : d <= 10 \/ d \in 19..22 \/ d >= 49 }

\* repetitions that put the sample size on either side of d/0.9, d/0.7, 2d
RampRepeats(d) == { 0, 1, 2, (3 * d) \div 7, ((3 * d) \div 7) + 1, d - 1, d, d + 1 }

RampSamples ==
    { Ramp(as_text, d, r) : as_text \in BOOLEAN,
                            d \in RampDistinct, r \in { 0 } } \cup
    UNION { { Ramp(as_text, d, r) : as_text \in BOOLEAN, r \in RampRepeats(d) } :
            d \in RampDistinct }

Ints(s) == [ i \in 1..Len(s) |-> PyInt(s[i]) ]

Texts(s) == [ i \in 1..Len(s) |-> PyStr(s[i]) ]

\* the samples of tests/test_profile_column.py, and a text sample of 90 rows
\* with 63 distinct values
TestSamples ==
    { Ints(<< 10, 10, 20, 20, 30, 30, 40, 40, 50, 100 >>),
      Ints(<< 1, 2, 3, 4, 5, 6, 7, 8, 9, 10 >>),
      Ints(<< 7, 7, 7, 7, 7, 7, 7, 7, 7, 7 >>),
      Texts(<< sOPEN, sOPEN, sOPEN, sOPEN, sOPEN, sCLOSED, sCLOSED, sCLOSED,
               sPENDING, sPENDING >>),
      Ramp(TRUE, 63, 27) }

Inputs ==
    [ rows : ShortSamples, name : ColumnNames, top : { 0, 100 } ] \cup
    [ rows : RampSamples \cup TestSamples, name : ColumnNames, top : { 200 } ]

----------------------------------------------------------------------------
(* State *)

VARIABLES
    asset,            \* the rows of the asset's column held by the backend
    column_name,      \* profile_column's column_name argument
    top,              \* profile_column's top argument
    max_rows_profile, \* cfg.max_rows_profile
    pc,               \* where the call is: "idle", "preview", "fetched",
                      \* "returned", "raised"
    effective_top,    \* the top sent to the client
    cap_applied,
    qr,               \* the QueryResult the client returned
    result,           \* Some(profile) once profile_column has returned
    error             \* the exception profile_column raised, "" if none

\* The tools that share the preview path, called one at a time or two at once
VARIABLES
    table,            \* the asset held by the backend: its columns and rows
    metadata,         \* what the backend has for the asset's $metadata
    mock_mode,        \* cfg.mock_mode: which client _make_client returns
    max_rows_preview, \* cfg.max_rows_preview
    max_rows_query,   \* cfg.max_rows_query
    args,             \* per call: the tool and its arguments
    locals,           \* per call: the local variables of its coroutine
    columns_cache,    \* the cache entries of list_columns, by max_columns
    overlapped        \* two calls have been waiting for the backend at once

\* The TTL cache and the tools in front of it
VARIABLES
    now,              \* time.time(), in whole seconds
    ttl_seconds,      \* TTLCache.ttl_seconds
    max_entries,      \* TTLCache.max_entries
    store,            \* TTLCache._store, in the OrderedDict's order
    stats,            \* TTLCache._stats
    ret,              \* what the last cache operation returned
    listing,          \* the list_spaces call in progress, its result
    backend_calls,    \* how often client.list_spaces was called
    diag,             \* the cache statistics diagnostics() last reported
    ops               \* how many operations and calls were started

\* The plugin loader
VARIABLES
    plugins_env,      \* the value of DATASPHERE_PLUGINS, split at the commas
    plugin_status,    \* registry._PLUGIN_STATUS
    reg,              \* the register_plugins call in progress
    report,           \* what register_plugins last returned
    loads             \* how many times register_plugins was called

\* The module-level cache of tasks.py and the configuration it was made for
VARIABLES
    cache_env,        \* (cfg.cache_ttl_seconds, cfg.cache_max_entries) as set now
    cache_signature,  \* _CACHE_SIGNATURE, Absent while _CACHE is None
    cache_id          \* which TTLCache object _CACHE is: the caches made so far

\* The HTTP client of one tool call and the token endpoint
VARIABLES
    config,        \* what of DatasphereConfig is set: tenant_url, OAuth settings
    clients,       \* how many clients _make_client has made
    cached_token,  \* OAuthClient._cached_token of the client in use
    token_posts,   \* requests sent to the OAuth token URL since the start
    tokens,        \* the tokens obtained since the start, in order
    call           \* the client method being run

\* One diagnostics() call
VARIABLES
    diag_pc,      \* where the call is: idle, ping, list_spaces, returned, raised
    checks,       \* the checks recorded so far
    overall_ok,
    diag_out      \* the dict the call returned, Absent before

\* get_tenant_info() run in two environments
VARIABLES
    envs,    \* the two environments, each its variables' values
    infos    \* what get_tenant_info() returned in each, Absent before

\* One find_assets_by_column call and the catalog it scans
VARIABLES
    catalog,   \* the spaces in list order, each with its assets and their columns
    find       \* the locals of the call, its requests so far, and its result

profileVars == << asset, column_name, top, max_rows_profile, pc, effective_top,
                  cap_applied, qr, result, error >>

toolVars == << table, metadata, mock_mode, max_rows_preview, max_rows_query,
               args, locals, columns_cache, overlapped >>

cacheVars == << now, ttl_seconds, max_entries, store, stats, ret, listing,
                backend_calls, diag, ops >>

pluginVars == << plugins_env, plugin_status, reg, report, loads >>

getCacheVars == << cache_env, cache_signature, cache_id >>

clientVars == << config, clients, cached_token, token_posts, tokens, call >>

diagVars == << diag_pc, checks, overall_ok, diag_out >>

infoVars == << envs, infos >>

findVars == << catalog, find >>

restVars == << getCacheVars, clientVars, diagVars, infoVars, findVars >>

\* what the steps of _get_cache leave alone
getCacheFrame == << profileVars, toolVars, pluginVars, clientVars, diagVars, infoVars,
                   findVars >>

\* what the steps of the HTTP client leave alone
clientFrame == << profileVars, toolVars, cacheVars, pluginVars, getCacheVars, diagVars,
                 infoVars, findVars >>

\* what the steps of diagnostics leave alone
diagFrame == << profileVars, toolVars, pluginVars, getCacheVars, clientVars, infoVars,
               findVars >>

\* what get_tenant_info leaves alone
infoFrame == << profileVars, toolVars, cacheVars, pluginVars, getCacheVars, clientVars,
               diagVars, findVars >>

\* what find_assets_by_column leaves alone
findFrame == << profileVars, toolVars, cacheVars, pluginVars, getCacheVars, clientVars,
               diagVars, infoVars >>

vars == << profileVars, toolVars, cacheVars, pluginVars, restVars >>

\* config.py:66, DATASPHERE_MAX_ROWS_PREVIEW when unset
MaxRowsPreviewDefault == 200

\* config.py:67, DATASPHERE_MAX_ROWS_QUERY when unset
MaxRowsQueryDefault == 500

\* config.py:72, DATASPHERE_CACHE_TTL_SECONDS when unset
CacheTtlDefault == 60

\* config.py:73, DATASPHERE_CACHE_MAX_ENTRIES when unset
CacheMaxEntriesDefault == 128

NoStats == [ hits |-> 0, misses |-> 0, sets |-> 0, evictions |-> 0, expirations |-> 0 ]

\* _CACHE is the cache in use, made for the configuration in force
GetCacheIdle ==
    /\ cache_env = << ttl_seconds, max_entries >>
    /\ cache_signature = Some(cache_env)
    /\ cache_id = 1

\* no client method is running
NoCall ==
    [ pc |-> "idle", method |-> "", args |-> << >>, params |-> << >>,
      requests |-> << >>, responses |-> << >>, token |-> << >>, outcome |-> "",
      methods |-> 0 ]

\* no client has been made
ClientIdle ==
    /\ config = [ tenant_url |-> TRUE, oauth |-> TRUE ]
    /\ clients = 0
    /\ cached_token = << >>
    /\ token_posts = 0
    /\ tokens = << >>
    /\ call = NoCall

\* diagnostics has not been called
DiagIdle ==
    /\ diag_pc = "idle"
    /\ checks = << >>
    /\ overall_ok = TRUE
    /\ diag_out = << >>

\* get_tenant_info has not been called
InfoIdle == envs = << >> /\ infos = << >>

\* find_assets_by_column has not been called
FindIdle == catalog = << >> /\ find = [ pc |-> "idle" ]

\* nothing else of the server is in use
RestIdle == GetCacheIdle /\ ClientIdle /\ DiagIdle /\ InfoIdle /\ FindIdle

\* no tool of the preview path is being called
ToolsIdle ==
    /\ table = [ columns |-> << >>, rows |-> << >> ]
    /\ metadata = [ kind |-> "none" ]
    /\ mock_mode = FALSE
    /\ max_rows_preview = MaxRowsPreviewDefault
    /\ max_rows_query = MaxRowsQueryDefault
    /\ args = << >>
    /\ locals = << >>
    /\ columns_cache = << >>
    /\ overlapped = FALSE

\* no cache operation has returned yet
NoRet == [ op |-> "none", key |-> "", value |-> Absent ]

\* list_spaces has not been called
NoListing == [ pc |-> "idle", n |-> 0, result |-> Absent, from_cache |-> FALSE,
               last_set |-> Absent ]

\* the module-level cache as _get_cache first creates it, unused
CacheIdle ==
    /\ now = 0
    /\ ttl_seconds = CacheTtlDefault
    /\ max_entries = CacheMaxEntriesDefault
    /\ store = << >>
    /\ stats = NoStats
    /\ ret = NoRet
    /\ listing = NoListing
    /\ backend_calls = 0
    /\ diag = Absent
    /\ ops = 0

\* register_plugins has not been called
NoRegistration == [ pc |-> "idle", plugins |-> << >>, i |-> 0, loaded |-> 0,
                    failed |-> 0, error |-> "" ]

\* registry.py as imported: no plugin configured, none loaded
PluginsIdle ==
    /\ plugins_env = << >>
    /\ plugin_status = << >>
    /\ reg = NoRegistration
    /\ report = Absent
    /\ loads = 0

\* no profile_column call of the single-call specification
ProfileOff ==
    /\ asset = << >>
    /\ column_name = << >>
    /\ top = 0
    /\ pc = "off"
    /\ effective_top = 0
    /\ cap_applied = FALSE
    /\ qr = [ columns |-> << >>, rows |-> << >>, truncated |-> FALSE ]
    /\ result = Absent
    /\ error = ""

ProfileIdle == ProfileOff /\ max_rows_profile = MaxRowsProfileDefault

NoQueryResult == [ columns |-> << >>, rows |-> << >>, truncated |-> FALSE ]

Init ==
    /\ \E inp \in Inputs :
          /\ asset = inp.rows
          /\ column_name = inp.name
          /\ top = inp.top
    /\ max_rows_profile = MaxRowsProfileDefault
    /\ pc = "idle"
    /\ effective_top = 0
    /\ cap_applied = FALSE
    /\ qr = NoQueryResult
    /\ result = Absent
    /\ error = ""
    /\ ToolsIdle /\ CacheIdle /\ PluginsIdle /\ RestIdle

\* profile_column up to its await: the cap, then the call of the client
ProfileColumnCall ==
    /\ pc = "idle"
    /\ LET capped == CapInt(top, max_rows_profile, 1)
       IN  /\ effective_top' = capped[1]
           /\ cap_applied' = capped[2]
    /\ pc' = "preview"
    /\ UNCHANGED << asset, column_name, top, max_rows_profile, qr, result, error >>
    /\ UNCHANGED << toolVars, cacheVars, pluginVars, restVars >>

\* client.preview_asset_data returns the QueryResult of the backend's rows
PreviewAssetData ==
    /\ pc = "preview"
    /\ qr' = QueryResultOf(column_name, BackendRows(asset, effective_top), effective_top)
    /\ pc' = "fetched"
    /\ UNCHANGED << asset, column_name, top, max_rows_profile, effective_top,
                    cap_applied, result, error >>
    /\ UNCHANGED << toolVars, cacheVars, pluginVars, restVars >>

\* client.preview_asset_data against a backend that answers 400 "Query option
\* '$top' is not supported": the request is sent again without $top and every
\* row of the asset comes back
PreviewAssetDataWithoutTop ==
    /\ pc = "preview"
    /\ qr' = QueryResultOf(column_name, asset, effective_top)
    /\ pc' = "fetched"
    /\ UNCHANGED << asset, column_name, top, max_rows_profile, effective_top,
                    cap_applied, result, error >>
    /\ UNCHANGED << toolVars, cacheVars, pluginVars, restVars >>

\* client.preview_asset_data raises RuntimeError (request error, HTTP error
\* status); profile_column does not catch it
PreviewFails ==
    /\ pc = "preview"
    /\ pc' = "raised"
    /\ error' = "RuntimeError: preview failed"
    /\ UNCHANGED << asset, column_name, top, max_rows_profile, effective_top,
                    cap_applied, qr, result >>
    /\ UNCHANGED << toolVars, cacheVars, pluginVars, restVars >>

\* profile_column after the await, on a result without columns
ProfileColumnNoColumns ==
    /\ pc = "fetched"
    /\ qr.columns = << >>
    /\ pc' = "raised"
    /\ error' = "RuntimeError: returned no columns"
    /\ UNCHANGED << asset, column_name, top, max_rows_profile, effective_top,
                    cap_applied, qr, result >>
    /\ UNCHANGED << toolVars, cacheVars, pluginVars, restVars >>

\* profile_column after the await, on a result with columns
ProfileColumnReturn ==
    /\ pc = "fetched"
    /\ qr.columns # << >>
    /\ result' = Some(Profile(column_name, qr, top, effective_top,
                              max_rows_profile, cap_applied))
    /\ pc' = "returned"
    /\ UNCHANGED << asset, column_name, top, max_rows_profile, effective_top,
                    cap_applied, qr, error >>
    /\ UNCHANGED << toolVars, cacheVars, pluginVars, restVars >>

Next ==
    \/ ProfileColumnCall
    \/ PreviewAssetData
    \/ PreviewAssetDataWithoutTop
    \/ PreviewFails
    \/ ProfileColumnNoColumns
    \/ ProfileColumnReturn

Spec == Init /\ [][Next]_vars

----------------------------------------------------------------------------
(* Vocabulary of the properties: the fetched sample, read off the state *)

Returned == pc = "returned"

\* the profile that was returned
P == result[1]

\* the column of the fetched sample, nulls included
Sample == [ i \in 1..Len(qr.rows) |-> qr.rows[i][1] ]

\* positions of the non-null values of the sample
NonNullAt == { i \in 1..Len(Sample) : Sample[i] # PyNone }

\* the distinct non-null values of the sample
DistinctNonNull == { Sample[i] : i \in NonNullAt }

\* the floats of the non-null values that coerce to a number
NumericValues == { ToFloat(Sample[i])[1] : i \in { j \in NonNullAt : ToFloat(Sample[j]) # Absent } }

HasNumeric == NumericValues # {}

\* number of sample values equal to v
Occurrences(v) == Cardinality({ i \in 1..Len(Sample) : Sample[i] = v })

NS == P.numeric_summary[1]

CS == P.categorical_summary[1]

----------------------------------------------------------------------------
(* Numeric summary: C1, C2, C3 *)

\* C1: for every sample with a non-null value that coerces to a number, the
\* numeric_summary is present and has p25 <= p50 <= p75, lower_fence <= p25
\* and upper_fence >= p75.
C1_QuartilesAndFencesOrdered ==
    (Returned /\ HasNumeric) =>
        /\ P.numeric_summary # Absent
        /\ FLe(NS.p25[1], NS.p50[1])
        /\ FLe(NS.p50[1], NS.p75[1])
        /\ FLe(NS.lower_fence[1], NS.p25[1])
        /\ FLe(NS.p75[1], NS.upper_fence[1])

\* The same ordering, for the samples whose numeric values are all finite.
QuartilesOrderedWhenFinite ==
    (Returned /\ HasNumeric /\ \A x \in NumericValues : IsFinite(x)) =>
        /\ P.numeric_summary # Absent
        /\ FLe(NS.p25[1], NS.p50[1])
        /\ FLe(NS.p50[1], NS.p75[1])
        /\ FLe(NS.lower_fence[1], NS.p25[1])
        /\ FLe(NS.p75[1], NS.upper_fence[1])

\* the numeric values of the sample in the order the profiler sorted them
SortedNumeric == SortedFloats(NumericLike(NonNullValues(Sample)))

IsAscending(xs) == \A i \in 1..(Len(xs) - 1) : FLe(xs[i], xs[i + 1])

\* The percentile at rank p of n ascending values: 100 * position is
\* p * (n - 1); the position is a whole number q when that is a multiple of
\* 100, else it lies r hundredths past q.
RankPercentile(xs, p) ==
    LET k == p * (Len(xs) - 1)
        q == k \div 100
        r == k % 100
    IN  IF Len(xs) = 1 THEN xs[1]
        ELSE IF r = 0 THEN xs[q + 1]
        ELSE FAdd(xs[q + 1], FMul(FSub(xs[q + 2], xs[q + 1]), Rat(r, 100)))

TestNumericSample == Ints(<< 10, 10, 20, 20, 30, 30, 40, 40, 50, 100 >>)

\* C2: for n >= 1 numeric values in ascending order, p25, p50 and p75 are the
\* percentiles at position p/100 * (n-1): the element there when the position
\* is a whole number, else the linear interpolation of its two neighbours by
\* the fractional part; for n = 1 the single value.  The sample
\* [10,10,20,20,30,30,40,40,50,100] gives 20, 30, 40.
C2_PercentileByLinearInterpolation ==
    /\ (Returned /\ HasNumeric /\ IsAscending(SortedNumeric)) =>
          /\ P.numeric_summary # Absent
          /\ NS.p25 = Some(RankPercentile(SortedNumeric, 25))
          /\ NS.p50 = Some(RankPercentile(SortedNumeric, 50))
          /\ NS.p75 = Some(RankPercentile(SortedNumeric, 75))
    /\ (Returned /\ Sample = TestNumericSample) =>
          /\ NS.p25 = Some(Fin(20))
          /\ NS.p50 = Some(Fin(30))
          /\ NS.p75 = Some(Fin(40))

\* the profile of the sample [10,10,20,20,30,30,40,40,50,100] was returned
C2_Witness ==
    /\ Returned
    /\ Sample = TestNumericSample
    /\ IsAscending(SortedNumeric)
    /\ NS.p25 = Some(Fin(20)) /\ NS.p50 = Some(Fin(30)) /\ NS.p75 = Some(Fin(40))

\* an interpolated percentile that differs from both of its neighbours
InterpolationWitness ==
    /\ Returned /\ HasNumeric /\ Len(SortedNumeric) = 2
    /\ IsFinite(SortedNumeric[1]) /\ IsFinite(SortedNumeric[2])
    /\ FLt(SortedNumeric[1], NS.p25[1]) /\ FLt(NS.p25[1], SortedNumeric[2])

\* C3: iqr = p75 - p25, the fences are p25 - 1.5 iqr and p75 + 1.5 iqr,
\* outlier_count counts the numeric values strictly outside the fences; and
\* when all numeric values equal one value v, min = max = mean = p25 = p50 =
\* p75 = v, iqr = 0 and outlier_count = 0.
C3_IqrFencesOutliers ==
    (Returned /\ HasNumeric) =>
        /\ P.numeric_summary # Absent
        /\ NS.iqr = Some(FSub(NS.p75[1], NS.p25[1]))
        /\ NS.lower_fence = Some(FSub(NS.p25[1], FMul(Rat(3, 2), NS.iqr[1])))
        /\ NS.upper_fence = Some(FAdd(NS.p75[1], FMul(Rat(3, 2), NS.iqr[1])))
        /\ NS.outlier_count =
              Some(Cardinality({ i \in NonNullAt :
                      /\ ToFloat(Sample[i]) # Absent
                      /\ \/ FLt(ToFloat(Sample[i])[1], NS.lower_fence[1])
                         \/ FLt(NS.upper_fence[1], ToFloat(Sample[i])[1]) }))
        /\ \A v \in NumericValues :
              (\A x \in NumericValues : FEq(x, v)) =>
                  /\ NS.min = v /\ NS.max = v /\ NS.mean = v
                  /\ NS.p25 = Some(v) /\ NS.p50 = Some(v) /\ NS.p75 = Some(v)
                  /\ NS.iqr = Some(Fin(0))
                  /\ NS.outlier_count = Some(0)

\* The same statement, for the samples whose numeric values are all finite.
IqrFencesOutliersWhenFinite ==
    (\A x \in NumericValues : IsFinite(x)) => C3_IqrFencesOutliers

----------------------------------------------------------------------------
(* Role hint: C4, C5, C6 *)

\* D distinct non-null values among N non-null values
D == Cardinality(DistinctNonNull)

N == Cardinality(NonNullAt)

NameHasIdToken ==
    \E token \in { << 105, 100 >>, << 95, 105, 100 >>, << 107, 101, 121 >>,
                   << 95, 107, 101, 121 >> } :
        Contains(Lower(column_name), token)

\* the identifier rule as the specification words it: at least 90% distinct
StatedIdRule == NameHasIdToken /\ 10 * D >= 9 * N

\* the identifier rule with the share rounded down: max(1, floor(0.9 N))
FlooredIdRule == NameHasIdToken /\ D >= Max2(1, (9 * N) \div 10)

\* numeric-like and more distinct values than max(5, 50% of N)
StatedMeasureRule == HasNumeric /\ D > 5 /\ 2 * D > N

\* at most max(50, 70% of N) distinct values
StatedDimensionBound == D <= 50 \/ 10 * D <= 7 * N

TenCustomerIds ==
    /\ column_name = nCUSTOMER_ID
    /\ Sample = Ints(<< 1, 2, 3, 4, 5, 6, 7, 8, 9, 10 >>)

IdBelowNinetyPercentWitness ==
    Returned /\ N > 0 /\ P.role_hint = Some("id") /\ 10 * D < 9 * N

\* C5: with non-null values and neither the identifier rule nor the measure
\* rule applying, role_hint is "dimension" whenever the distinct count is at
\* most max(50, 70% of the non-null count), for numeric-like columns as for
\* the others, and absent only when that bound is exceeded.
C5_DimensionOtherwise ==
    (Returned /\ N > 0 /\ ~StatedIdRule /\ ~StatedMeasureRule) =>
        /\ StatedDimensionBound => P.role_hint = Some("dimension")
        /\ ~StatedDimensionBound => P.role_hint = Absent

----------------------------------------------------------------------------
(* Empty and all-null samples: C7, C8 *)

NoColumnsError == "RuntimeError: returned no columns"

\* the client has answered, and profile_column has or has not gone on
PreviewAnswered ==
    \/ pc \in { "fetched", "returned" }
    \/ (pc = "raised" /\ error = NoColumnsError)

EmptySample == qr.columns = << >> \/ qr.rows = << >>

ZeroProfile ==
    /\ P.total_count = 0 /\ P.null_count = 0 /\ P.non_null_count = 0
    /\ P.numeric_summary = Absent
    /\ P.categorical_summary = Absent
    /\ P.role_hint = Absent

\* C7 as stated: profile_column never raises for an empty sample (zero columns
\* or zero rows); what it returns then has total_count = null_count =
\* non_null_count = 0 and no numeric_summary, categorical_summary or role_hint.
C7_NeverRaisesOnEmptySample ==
    (PreviewAnswered /\ EmptySample) =>
        /\ pc # "raised"
        /\ Returned => ZeroProfile

\* What the code does with an empty sample: when the backend returns zero rows
\* the client's result has zero columns and zero rows, and profile_column
\* raises RuntimeError ("returned no columns") and returns no profile; it
\* raises that error for no other sample.
EmptySampleRaises ==
    /\ (PreviewAnswered /\ EmptySample) =>
          /\ qr.columns = << >> /\ qr.rows = << >>
          /\ asset = << >>
          /\ ~Returned
          /\ result = Absent
    /\ (pc = "raised" /\ error = NoColumnsError) => EmptySample

\* profile_column raised on the empty answer for an asset without rows
EmptySampleRaisedWitness ==
    /\ pc = "raised" /\ error = NoColumnsError
    /\ asset = << >> /\ EmptySample /\ result = Absent

AllNull == Len(Sample) >= 1 /\ \A i \in 1..Len(Sample) : Sample[i] = PyNone

\* C8: for a sample of one or more rows that are all null, null_count =
\* total_count (the number of rows), non_null_count = 0, and numeric_summary,
\* categorical_summary and role_hint are absent.
C8_AllNullColumn ==
    (Returned /\ AllNull) =>
        /\ P.total_count = Len(Sample)
        /\ P.null_count = P.total_count
        /\ P.non_null_count = 0
        /\ P.numeric_summary = Absent
        /\ P.categorical_summary = Absent
        /\ P.role_hint = Absent

\* the profile of a column of two or more nulls was returned
C8_Witness ==
    /\ Returned /\ AllNull /\ Len(Sample) >= 2
    /\ P.null_count = Len(Sample)

----------------------------------------------------------------------------
(* Categorical summary: C9, C10 *)

\* C9: categorical_summary is present exactly when the sample has a non-null
\* value and unique_values <= 50 or unique_values <= floor(non_null_count / 2).
C9_CategoricalGate ==
    Returned =>
        ((P.categorical_summary # Absent) <=>
            (N >= 1 /\ (D <= 50 \/ D <= N \div 2)))

\* a summary given for more than 50 distinct values, each value being at
\* least twice in the sample on average
C9_Witness ==
    /\ Returned /\ P.categorical_summary # Absent
    /\ D > 50 /\ D <= N \div 2
    /\ CS.unique_values = D

\* no summary for more than 50 distinct values that fill over half the sample
CategoricalRefusedWitness ==
    Returned /\ N >= 1 /\ D > 50 /\ P.categorical_summary = Absent

TV == CS.top_values

TestDimensionSample ==
    Texts(<< sOPEN, sOPEN, sOPEN, sOPEN, sOPEN, sCLOSED, sCLOSED, sCLOSED,
             sPENDING, sPENDING >>)

\* entry a may stand before entry b: more frequent, or as frequent and its
\* string form not after b's
MayPrecede(count_a, value_a, count_b, value_b) ==
    \/ count_a > count_b
    \/ (count_a = count_b /\ ~StrLt(StrOf(value_b), StrOf(value_a)))

\* C10: when categorical_summary is present, top_values holds the at most 20
\* most frequent distinct values, by descending count and, for equal counts,
\* by ascending string form; each entry carries its count and the fraction
\* count / non_null_count; unique_values is the number of distinct non-null
\* values; concentration is the fraction of the first entry.  OPEN x5,
\* CLOSED x3, PENDING x2 gives unique_values 3, first entry OPEN, 5, 0.5.
C10_TopValues ==
    /\ (Returned /\ P.categorical_summary # Absent) =>
          /\ Len(TV) <= 20
          /\ Len(TV) = (IF D < 20 THEN D ELSE 20)
          /\ \A i \in 1..Len(TV) :
                /\ TV[i].value \in DistinctNonNull
                /\ TV[i].count = Occurrences(TV[i].value)
                /\ TV[i].fraction = Rat(TV[i].count, N)
                /\ \A j \in (i + 1)..Len(TV) :
                      /\ TV[i].value # TV[j].value
                      /\ MayPrecede(TV[i].count, TV[i].value, TV[j].count, TV[j].value)
                /\ \A v \in DistinctNonNull \ { TV[k].value : k \in 1..Len(TV) } :
                      MayPrecede(TV[i].count, TV[i].value, Occurrences(v), v)
          /\ CS.unique_values = D
          /\ CS.total_sampled = N
          /\ CS.concentration = Some(TV[1].fraction)
          /\ \A v \in DistinctNonNull : Occurrences(v) <= TV[1].count
    /\ (Returned /\ Sample = TestDimensionSample) =>
          /\ P.categorical_summary # Absent
          /\ CS.unique_values = 3
          /\ TV[1] = [ value |-> PyStr(sOPEN), count |-> 5, fraction |-> Rat(1, 2) ]
          /\ CS.concentration = Some(Rat(1, 2))

\* twenty entries shown out of more distinct values, the first two equally
\* frequent and put in the order of their string forms
C10_Witness ==
    /\ Returned /\ P.categorical_summary # Absent
    /\ D > 20 /\ Len(TV) = 20
    /\ TV[1].count = TV[2].count
    /\ StrLt(StrOf(TV[1].value), StrOf(TV[2].value))

\* the ints 9 and 10, equally frequent, shown as 10 then 9
TieByStringFormWitness ==
    /\ Returned /\ P.categorical_summary # Absent /\ Len(TV) = 2
    /\ TV[1].value = PyInt(10) /\ TV[2].value = PyInt(9)
    /\ TV[1].count = TV[2].count

----------------------------------------------------------------------------
(* The clients: an asset is a table [columns, rows], each row as long as   *)
(* the columns                                                              *)

\* the position of a name in a list of names, 0 if it is not there
IndexOf(names, name) ==
    IF \E i \in 1..Len(names) : names[i] = name
    THEN CHOOSE i \in 1..Len(names) :
            names[i] = name /\ \A j \in 1..(i - 1) : names[j] # name
    ELSE 0

\* base_rows[start:end] of Python, 0-based start, end exclusive
Slice(s, start, end) ==
    LET hi == IF end > Len(s) THEN Len(s) ELSE end
    IN  IF start >= hi THEN << >> ELSE SubSeq(s, start + 1, hi)

\* the table cut to the columns named by select, all columns for no select
Project(tbl, select) ==
    IF select = << >> THEN tbl
    ELSE LET names == SelectSeq(select, LAMBDA c : IndexOf(tbl.columns, c) > 0)
             idx   == [ k \in 1..Len(names) |-> IndexOf(tbl.columns, names[k]) ]
         IN  [ columns |-> names,
               rows    |-> [ r \in 1..Len(tbl.rows) |->
                               [ k \in 1..Len(idx) |-> tbl.rows[r][idx[k]] ] ] ]

\* The backend's answer to GET ...?$top=&$skip=&$select=: the rows from skip
\* on, at most top_param of them (all of them for top_param = -1, the
\* request sent again without $top), each with the selected columns.
BackendAnswer(tbl, top_param, skip, select) ==
    LET from == IF skip > 0 THEN skip ELSE 0
        rows == IF top_param < 0 THEN Slice(tbl.rows, from, Len(tbl.rows))
                ELSE Slice(tbl.rows, from, from + top_param)
    IN  Project([ columns |-> tbl.columns, rows |-> rows ], select)

\* DatasphereClient.preview_asset_data and .query_relational, from
\* response.json() on: top is the top the client was called with
ClientQueryResult(answer, client_top) ==
    IF answer.rows = << >>
    THEN [ columns |-> << >>, rows |-> << >>, truncated |-> FALSE ]
    ELSE [ columns   |-> answer.columns,
           rows      |-> answer.rows,
           truncated |-> Len(answer.rows) >= client_top ]

\* MockDatasphereClient.preview_asset_data: tbl.columns = << >> stands for
\* an asset the mock does not hold
MockPreview(tbl, client_top, select) ==
    IF tbl.columns = << >>
    THEN [ columns |-> << >>, rows |-> << >>, truncated |-> FALSE ]
    ELSE LET rows_slice == Slice(tbl.rows, 0, client_top)
             cut == Project([ columns |-> tbl.columns, rows |-> rows_slice ], select)
         IN  [ columns   |-> cut.columns,
               rows      |-> cut.rows,
               truncated |-> Len(rows_slice) < Len(tbl.rows) ]

\* MockDatasphereClient.query_relational
MockQuery(tbl, client_top, skip, select) ==
    IF tbl.columns = << >>
    THEN [ columns |-> << >>, rows |-> << >>, truncated |-> FALSE ]
    ELSE LET start == IF skip > 0 THEN skip ELSE 0
             end   == start + client_top
             rows_slice == Slice(tbl.rows, start, end)
             cut == Project([ columns |-> tbl.columns, rows |-> rows_slice ], select)
         IN  [ columns   |-> cut.columns,
               rows      |-> cut.rows,
               truncated |-> end < Len(tbl.rows) ]

----------------------------------------------------------------------------
(* The tools of the preview path *)

\* tasks.py:583, the most example values of a column summary
SchemaExampleCap == 5

\* example values collected without the test for values already seen
SchemaExampleValuesRepeating(values) ==
    Loop(LAMBDA acc, v : IF Len(acc) >= SchemaExampleCap
                         THEN acc ELSE Append(acc, v),
         values, << >>, 1, Len(values))

\* describe_asset_schema's example_values loop: over all values of the
\* column, None included, first-seen order, left at SchemaExampleCap
SchemaExampleValues(values) ==
    Loop(LAMBDA acc, v : IF Len(acc) >= SchemaExampleCap \/ v \in Range(acc)
                         THEN acc ELSE Append(acc, v),
         values, << >>, 1, Len(values))

\* one entry of describe_asset_schema's column_summaries
ColumnSummary(col_name, col_index, rows) ==
    LET kept   == SelectSeq(rows, LAMBDA r : col_index <= Len(r))
        values == [ i \in 1..Len(kept) |-> kept[i][col_index] ]
        total  == Len(values)
        nn     == NonNullValues(values)
        ordered_types  == OrderedTypes(nn)
        example_values == SchemaExampleValues(values)
    IN  [ name           |-> col_name,
          python_types   |-> IF ordered_types = << >> THEN Absent ELSE Some(ordered_types),
          nonnull_count  |-> IF total > 0 THEN Some(Len(nn)) ELSE Absent,
          total_count    |-> IF total > 0 THEN Some(total) ELSE Absent,
          example_values |-> IF example_values = << >> THEN Absent
                             ELSE Some(example_values) ]

\* what describe_asset_schema returns for the columns and rows it has, with
\* the truncated flag of its first preview
SchemaResult(columns, rows, requested_top, preview_truncated) ==
    [ columns |-> [ k \in 1..Len(columns) |-> ColumnSummary(columns[k], k, rows) ],
      meta    |-> [ row_count |-> IF Len(rows) > 0 THEN Some(Len(rows)) ELSE Absent,
                    top       |-> requested_top,
                    truncated |-> preview_truncated ] ]

\* what preview_asset and query_relational return: the client's result and
\* the meta entries they add
PreviewResult(q, requested_top, eff_top, cap_top, was_capped) ==
    [ columns   |-> q.columns,
      rows      |-> q.rows,
      truncated |-> q.truncated,
      meta      |-> [ top           |-> eff_top,
                      requested_top |-> requested_top,
                      effective_top |-> eff_top,
                      cap_top       |-> cap_top,
                      cap_applied   |-> was_capped ] ]

\* Nullable="..." of a Property element: absent stays None, otherwise
\* nullable_attr.lower() != "false"
NullableOf(nullable_attr) ==
    IF nullable_attr = Absent THEN Absent
    ELSE Some(Lower(nullable_attr[1]) # << 102, 97, 108, 115, 101 >>)

\* _parse_relational_metadata_columns on a document given by the Property
\* elements (props) and the PropertyRef names under Key (keys) of the first
\* entity type that has properties: an element without Name is skipped, and
\* the loop is left as soon as max_columns columns are held
ParseRelationalMetadataColumns(doc, max_columns) ==
    Loop(LAMBDA acc, prop :
            IF (acc # << >> /\ Len(acc) >= max_columns) \/ prop.name = << >>
            THEN acc
            ELSE Append(acc, [ name     |-> prop.name,
                               type     |-> prop.type,
                               nullable |-> NullableOf(prop.nullable_attr),
                               is_key   |-> prop.name \in doc.keys ]),
         doc.props, << >>, 1, Len(doc.props))

\* list_columns' columns from the column names of a preview
InferredColumns(col_names, max_columns) ==
    LET cut == Slice(col_names, 0, max_columns)
    IN  [ k \in 1..Len(cut) |-> [ name |-> cut[k], type |-> Absent,
                                  nullable |-> Absent, is_key |-> FALSE ] ]

\* the dict list_columns returns
ColumnsResult(columns, source) ==
    [ columns |-> columns,
      meta    |-> [ source |-> source, column_count |-> Len(columns) ] ]

----------------------------------------------------------------------------
(* Assets, documents and calls the tools are run on *)

\* most rows of a freely chosen asset
MaxRows == 2

\* a row cap set below the default, DATASPHERE_MAX_ROWS_* = 2
SmallCap == 2

nNAME == << 78, 65, 77, 69 >>

nCOUNTRY == << 67, 79, 85, 78, 84, 82, 89 >>

sEdmString == << 69, 100, 109, 46, 83, 116, 114, 105, 110, 103 >>

sFalseUpper == << 70, 65, 76, 83, 69 >>

\* the asset ("MOCK_SALES", "CUSTOMERS") of the mock client
MockCustomers ==
    [ columns |-> << nCUSTOMER_ID, nNAME, nCOUNTRY >>,
      rows    |-> << Texts(<< << 67, 85, 83, 84, 95, 49 >>, << 65, 108, 105, 99, 101 >>, << 68, 69 >> >>),
                     Texts(<< << 67, 85, 83, 84, 95, 50 >>, << 66, 111, 98 >>, << 85, 83 >> >>),
                     Texts(<< << 67, 85, 83, 84, 95, 51 >>, << 67, 104, 97, 114, 108, 105, 101 >>, << 73, 78 >> >>) >> ]

\* an asset the mock client does not hold, or one without rows
NoTable == [ columns |-> << >>, rows |-> << >> ]

\* the rows a freely chosen asset with the columns CUSTOMER_ID, STATUS is
\* made of
RowKinds ==
    { << PyInt(9), PyStr(<< 97, 98 >>) >>,
      << PyNone, PyStr(<< 97, 98 >>) >>,
      << PyInt(10), PyNone >> }

SmallTables ==
    { [ columns |-> << nCUSTOMER_ID, nSTATUS >>, rows |-> rows ] :
        rows \in UNION { [ 1..n -> RowKinds ] : n \in 0..MaxRows } }

\* one column AMOUNT: a null, then d distinct ints, then the first again
WideTable(d) ==
    [ columns |-> << nAMOUNT >>,
      rows    |-> [ i \in 1..(d + 2) |->
                      << (<< PyNone >> \o Ramp(FALSE, d, 1))[i] >> ] ]

WideTables == { WideTable(4), WideTable(6), WideTable(22) }

\* one column STATUS that holds ints and texts: a value of the first kind,
\* two of the other, a null, one more of the other
MixedTable(first, other) ==
    [ columns |-> << nSTATUS >>,
      rows    |-> << << first >>, << other >>, << other >>, << PyNone >>, << other >> >> ]

MixedTables == { MixedTable(PyInt(9), PyStr(<< 97, 98 >>)),
                 MixedTable(PyStr(<< 97, 98 >>), PyInt(9)) }

RealTables == SmallTables \cup WideTables \cup MixedTables

\* the $metadata of the asset: the fetch raises, nothing comes back, the
\* text is no XML, or a document
MetadataChoices ==
    { [ kind |-> "raises" ], [ kind |-> "none" ], [ kind |-> "malformed" ],
      [ kind |-> "xml", props |-> << >>, keys |-> { } ],
      [ kind |-> "xml", keys |-> { nCUSTOMER_ID },
        props |-> << [ name |-> nCUSTOMER_ID, type |-> Some(sEdmString),
                       nullable_attr |-> Some(sFalseUpper) ],
                     [ name |-> << >>, type |-> Absent, nullable_attr |-> Absent ],
                     [ name |-> nNAME, type |-> Some(sEdmString),
                       nullable_attr |-> Absent ] >> ] }

Tops == { 0, 1, 2, 3, 100, 300 }

MaxColumnsChoices == { 0, 1, 200 }

CallOf(tool, call_top, skip, col, max_columns) ==
    [ tool |-> tool, top |-> call_top, skip |-> skip, column_name |-> col,
      max_columns |-> max_columns ]

\* the calls of preview_asset, query_relational, describe_asset_schema and
\* profile_column that can be made on a table
RowCalls(tbl, with_unknown) ==
    { CallOf("preview_asset", n, 0, << >>, 0) : n \in Tops } \cup
    { CallOf("query_relational", n, k, << >>, 0) : n \in Tops, k \in { 0, 1 } } \cup
    { CallOf("describe_asset_schema", n, 0, << >>, 0) : n \in Tops } \cup
    { CallOf("profile_column", n, 0, c, 0) :
        n \in Tops, c \in Range(tbl.columns) \cup (IF with_unknown THEN { nPartKey } ELSE { }) }

ColumnCalls == { CallOf("list_columns", 0, 0, << >>, m) : m \in MaxColumnsChoices }

NewLocals ==
    [ pc |-> "idle", effective_top |-> 0, cap_applied |-> FALSE,
      qr |-> [ columns |-> << >>, rows |-> << >>, truncated |-> FALSE ],
      first_truncated |-> FALSE, backend_tops |-> << >>, previews |-> 0,
      from_cache |-> FALSE, result |-> Absent, error |-> "" ]

----------------------------------------------------------------------------
(* The tools as coroutines: one action per stretch between two awaits *)

Procs == DOMAIN args

\* every call runs in a coroutine frame of its own
FrameShared(p) == 1

\* the frame that holds the local variables of call p
Frame(p) == p

L(p) == locals[Frame(p)]

\* locals of which the set of values already seen outlives the call: a
\* profile returned after another call returned finds every value seen
SetLocalsSeenShared(p, rec) ==
    [ locals EXCEPT ![Frame(p)] =
        IF /\ rec.pc = "returned" /\ args[p].tool = "profile_column"
           /\ \E q \in Procs \ { p } : locals[q].pc = "returned"
        THEN [ rec EXCEPT !.result =
                 Some([ rec.result[1] EXCEPT !.example_values = Absent ]) ]
        ELSE rec ]

\* the assignments a call makes to its local variables
SetLocals(p, rec) == [ locals EXCEPT ![Frame(p)] = rec ]

\* the row cap a tool clamps its top with; describe_asset_schema and
\* list_columns go through preview_asset
CapOf(tool) ==
    CASE tool = "profile_column"   -> max_rows_profile
      [] tool = "query_relational" -> max_rows_query
      [] OTHER                     -> max_rows_preview

\* the select a tool passes to the client
SelectOf(a) == IF a.tool = "profile_column" THEN << a.column_name >> ELSE << >>

\* the top the client is called with: describe_asset_schema's second preview
\* asks for one row, every other call for effective_top
ClientTop(p) == IF L(p).pc = "second" THEN 1 ELSE L(p).effective_top

Waiting(l) == l.pc \in { "metadata", "preview", "second" }

\* call p starts to wait for the backend while another call waits
Overlaps(p) == overlapped \/ \E q \in Procs \ { p } : Waiting(locals[q])

RowTools == { "preview_asset", "query_relational", "describe_asset_schema",
              "profile_column" }

\* the configurations: every row cap at its default, or every cap small
ConfigChoice ==
    \/ /\ max_rows_preview = MaxRowsPreviewDefault
       /\ max_rows_query = MaxRowsQueryDefault
       /\ max_rows_profile = MaxRowsProfileDefault
    \/ /\ max_rows_preview = SmallCap
       /\ max_rows_query = SmallCap
       /\ max_rows_profile = SmallCap

\* the tables two calls are run on at once
SharedTables ==
    { WideTable(6), WideTable(22),
      [ columns |-> << nCUSTOMER_ID, nSTATUS >>,
        rows    |-> << << PyInt(9), PyStr(<< 97, 98 >>) >>, << PyInt(10), PyNone >> >> ] }

\* the calls two of which are run at once
SharedCalls(tbl) ==
    { c \in RowCalls(tbl, FALSE) :
        c.tool \in { "describe_asset_schema", "profile_column" } /\ c.top \in { 1, 100 } }

ToolInit ==
    /\ ProfileOff /\ CacheIdle /\ PluginsIdle /\ RestIdle
    /\ ConfigChoice
    /\ columns_cache = [ m \in MaxColumnsChoices |-> Absent ]
    /\ overlapped = FALSE
    /\ \/ \* one call of a row tool, real client
          /\ mock_mode = FALSE
          /\ metadata = [ kind |-> "none" ]
          /\ table \in RealTables
          /\ \E c \in RowCalls(table, FALSE) : args = << c >>
       \/ \* one call of a row tool, mock client
          /\ mock_mode = TRUE
          /\ metadata = [ kind |-> "none" ]
          /\ table \in { MockCustomers, NoTable }
          /\ \E c \in RowCalls(table, TRUE) : args = << c >>
       \/ \* one or two calls of list_columns
          /\ mock_mode = FALSE
          /\ metadata \in MetadataChoices
          /\ table \in { NoTable, MockCustomers }
          /\ max_rows_preview = MaxRowsPreviewDefault
          /\ \/ \E c \in ColumnCalls : args = << c >>
             \/ \E c \in ColumnCalls, d \in ColumnCalls : args = << c, d >>
       \/ \* two calls of describe_asset_schema or profile_column
          /\ mock_mode = FALSE
          /\ metadata = [ kind |-> "none" ]
          /\ max_rows_preview = MaxRowsPreviewDefault
          /\ table \in SharedTables
          /\ \E c \in SharedCalls(table), d \in SharedCalls(table) : args = << c, d >>
    /\ locals = [ p \in DOMAIN args |-> NewLocals ]

toolFrame == << profileVars, cacheVars, pluginVars, restVars, table, metadata, mock_mode,
                max_rows_preview, max_rows_query, args >>

\* preview_asset, query_relational, profile_column up to their await, and
\* describe_asset_schema up to the await inside preview_asset: the cap, then
\* the call of the client
ToolCall(p) ==
    /\ L(p).pc = "idle"
    /\ args[p].tool \in RowTools
    /\ LET capped == CapInt(args[p].top, CapOf(args[p].tool), 1)
       IN  locals' = SetLocals(p, [ L(p) EXCEPT !.pc = "preview",
                                                !.effective_top = capped[1],
                                                !.cap_applied = capped[2] ])
    /\ overlapped' = Overlaps(p)
    /\ UNCHANGED << toolFrame, columns_cache >>

\* the client returns the QueryResult of what the backend answers to a
\* request with $top
ClientReturns(p) ==
    /\ L(p).pc \in { "preview", "second" }
    /\ LET a  == args[p]
           n  == ClientTop(p)
           q  == IF mock_mode
                 THEN (IF a.tool = "query_relational"
                       THEN MockQuery(table, n, a.skip, SelectOf(a))
                       ELSE MockPreview(table, n, SelectOf(a)))
                 ELSE ClientQueryResult(BackendAnswer(table, n, a.skip, SelectOf(a)), n)
       IN  locals' = SetLocals(p,
              [ L(p) EXCEPT !.pc = IF L(p).pc = "preview" THEN "fetched" ELSE "fetched2",
                            !.qr = q,
                            !.first_truncated = IF L(p).pc = "preview" THEN q.truncated
                                                ELSE L(p).first_truncated,
                            !.backend_tops = << n >>,
                            !.previews = L(p).previews + 1 ])
    /\ UNCHANGED << toolFrame, columns_cache, overlapped >>

\* the backend answers 400 "Query option '$top' is not supported"; the real
\* client sends the request again without $top and returns the QueryResult
\* of every row that comes back
ClientRetriesWithoutTop(p) ==
    /\ ~mock_mode
    /\ L(p).pc \in { "preview", "second" }
    /\ LET a == args[p]
           n == ClientTop(p)
           q == ClientQueryResult(BackendAnswer(table, -1, a.skip, SelectOf(a)), n)
       IN  locals' = SetLocals(p,
              [ L(p) EXCEPT !.pc = IF L(p).pc = "preview" THEN "fetched" ELSE "fetched2",
                            !.qr = q,
                            !.first_truncated = IF L(p).pc = "preview" THEN q.truncated
                                                ELSE L(p).first_truncated,
                            !.backend_tops = << n, -1 >>,
                            !.previews = L(p).previews + 1 ])
    /\ UNCHANGED << toolFrame, columns_cache, overlapped >>

\* the real client raises RuntimeError (request error, HTTP error status);
\* no tool catches it
ClientRaises(p) ==
    /\ ~mock_mode
    /\ L(p).pc \in { "preview", "second" }
    /\ locals' = SetLocals(p, [ L(p) EXCEPT !.pc = "raised",
                                            !.error = "RuntimeError: preview failed",
                                            !.previews = L(p).previews + 1 ])
    /\ UNCHANGED << toolFrame, columns_cache, overlapped >>

\* preview_asset after its await
PreviewAssetReturn(p) ==
    /\ L(p).pc = "fetched"
    /\ args[p].tool = "preview_asset"
    /\ locals' = SetLocals(p,
          [ L(p) EXCEPT !.pc = "returned",
                        !.result = Some(PreviewResult(L(p).qr, args[p].top,
                                        L(p).effective_top, max_rows_preview,
                                        L(p).cap_applied)) ])
    /\ UNCHANGED << toolFrame, columns_cache, overlapped >>

\* query_relational after its await
QueryRelationalReturn(p) ==
    /\ L(p).pc = "fetched"
    /\ args[p].tool = "query_relational"
    /\ locals' = SetLocals(p,
          [ L(p) EXCEPT !.pc = "returned",
                        !.result = Some(PreviewResult(L(p).qr, args[p].top,
                                        L(p).effective_top, max_rows_query,
                                        L(p).cap_applied)) ])
    /\ UNCHANGED << toolFrame, columns_cache, overlapped >>

\* describe_asset_schema after preview_asset returned neither rows nor
\* columns: a second preview, of one row, straight from the client
DescribeAssetSchemaSecondPreview(p) ==
    /\ L(p).pc = "fetched"
    /\ args[p].tool = "describe_asset_schema"
    /\ L(p).qr.rows = << >> /\ L(p).qr.columns = << >>
    /\ locals' = SetLocals(p, [ L(p) EXCEPT !.pc = "second" ])
    /\ overlapped' = Overlaps(p)
    /\ UNCHANGED << toolFrame, columns_cache >>

\* describe_asset_schema from the columns and rows it has to its return
DescribeAssetSchemaReturn(p) ==
    /\ args[p].tool = "describe_asset_schema"
    /\ \/ L(p).pc = "fetched" /\ ~(L(p).qr.rows = << >> /\ L(p).qr.columns = << >>)
       \/ L(p).pc = "fetched2"
    /\ locals' = SetLocals(p,
          [ L(p) EXCEPT !.pc = "returned",
                        !.result = Some(SchemaResult(L(p).qr.columns, L(p).qr.rows,
                                        args[p].top, L(p).first_truncated)) ])
    /\ UNCHANGED << toolFrame, columns_cache, overlapped >>

\* profile_column after its await, on a result without columns
ProfileNoColumns(p) ==
    /\ L(p).pc = "fetched"
    /\ args[p].tool = "profile_column"
    /\ L(p).qr.columns = << >>
    /\ locals' = SetLocals(p, [ L(p) EXCEPT !.pc = "raised",
                                            !.error = "RuntimeError: returned no columns" ])
    /\ UNCHANGED << toolFrame, columns_cache, overlapped >>

\* profile_column after its await, on a result with columns
ProfileReturn(p) ==
    /\ L(p).pc = "fetched"
    /\ args[p].tool = "profile_column"
    /\ L(p).qr.columns # << >>
    /\ locals' = SetLocals(p,
          [ L(p) EXCEPT !.pc = "returned",
                        !.result = Some(Profile(args[p].column_name, L(p).qr,
                                        args[p].top, L(p).effective_top,
                                        max_rows_profile, L(p).cap_applied)) ])
    /\ UNCHANGED << toolFrame, columns_cache, overlapped >>

\* list_columns finds its key in the cache and returns the cached dict
ListColumnsCached(p) ==
    /\ L(p).pc = "idle"
    /\ args[p].tool = "list_columns"
    /\ columns_cache[args[p].max_columns] # Absent
    /\ locals' = SetLocals(p, [ L(p) EXCEPT !.pc = "returned",
                                            !.from_cache = TRUE,
                                            !.result = columns_cache[args[p].max_columns] ])
    /\ UNCHANGED << toolFrame, columns_cache, overlapped >>

\* list_columns misses the cache and asks the client for the $metadata
ListColumnsCall(p) ==
    /\ L(p).pc = "idle"
    /\ args[p].tool = "list_columns"
    /\ columns_cache[args[p].max_columns] = Absent
    /\ locals' = SetLocals(p, [ L(p) EXCEPT !.pc = "metadata" ])
    /\ overlapped' = Overlaps(p)
    /\ UNCHANGED << toolFrame, columns_cache >>

\* list_columns without the $metadata: it always infers from a preview
MetadataColumnsSkipped(max_columns) == << >>

\* the columns list_columns gets out of the $metadata: none when the fetch
\* raised, brought nothing, or the text did not parse
MetadataColumns(max_columns) ==
    IF metadata.kind = "xml"
    THEN ParseRelationalMetadataColumns(metadata, max_columns)
    ELSE << >>

\* list_columns after get_relational_metadata, with columns parsed: the dict
\* is cached and returned
ListColumnsFromMetadata(p) ==
    /\ L(p).pc = "metadata"
    /\ LET columns == MetadataColumns(args[p].max_columns)
           out     == ColumnsResult(columns, "relational_metadata")
       IN  /\ columns # << >>
           /\ locals' = SetLocals(p, [ L(p) EXCEPT !.pc = "returned",
                                                   !.result = Some(out) ])
           /\ columns_cache' = [ columns_cache EXCEPT ![args[p].max_columns] = Some(out) ]
    /\ UNCHANGED << toolFrame, overlapped >>

\* list_columns after get_relational_metadata, without columns: it calls
\* preview_asset(top=1), which caps the top and awaits the client
ListColumnsFallsBack(p) ==
    /\ L(p).pc = "metadata"
    /\ MetadataColumns(args[p].max_columns) = << >>
    /\ LET capped == CapInt(1, max_rows_preview, 1)
       IN  locals' = SetLocals(p, [ L(p) EXCEPT !.pc = "preview",
                                                !.effective_top = capped[1],
                                                !.cap_applied = capped[2] ])
    /\ overlapped' = Overlaps(p)
    /\ UNCHANGED << toolFrame, columns_cache >>

\* list_columns after the preview: the column names, cut to max_columns, as
\* columns without type; the dict is cached and returned
ListColumnsFromPreview(p) ==
    /\ L(p).pc = "fetched"
    /\ args[p].tool = "list_columns"
    /\ LET out == ColumnsResult(InferredColumns(L(p).qr.columns, args[p].max_columns),
                                "sample_inference")
       IN  /\ locals' = SetLocals(p, [ L(p) EXCEPT !.pc = "returned",
                                                   !.result = Some(out) ])
           /\ columns_cache' = [ columns_cache EXCEPT ![args[p].max_columns] = Some(out) ]
    /\ UNCHANGED << toolFrame, overlapped >>

\* a cache entry of list_columns expires or is evicted
ColumnsCacheExpires ==
    /\ \E m \in MaxColumnsChoices :
          /\ columns_cache[m] # Absent
          /\ columns_cache' = [ columns_cache EXCEPT ![m] = Absent ]
    /\ UNCHANGED << toolFrame, locals, overlapped >>

ToolNext ==
    \/ \E p \in Procs : ToolCall(p)
    \/ \E p \in Procs : ClientReturns(p)
    \/ \E p \in Procs : ClientRetriesWithoutTop(p)
    \/ \E p \in Procs : ClientRaises(p)
    \/ \E p \in Procs : PreviewAssetReturn(p)
    \/ \E p \in Procs : QueryRelationalReturn(p)
    \/ \E p \in Procs : DescribeAssetSchemaSecondPreview(p)
    \/ \E p \in Procs : DescribeAssetSchemaReturn(p)
    \/ \E p \in Procs : ProfileNoColumns(p)
    \/ \E p \in Procs : ProfileReturn(p)
    \/ \E p \in Procs : ListColumnsCached(p)
    \/ \E p \in Procs : ListColumnsCall(p)
    \/ \E p \in Procs : ListColumnsFromMetadata(p)
    \/ \E p \in Procs : ListColumnsFallsBack(p)
    \/ \E p \in Procs : ListColumnsFromPreview(p)
    \/ ColumnsCacheExpires

ToolSpec == ToolInit /\ [][ToolNext]_vars

----------------------------------------------------------------------------
(* Vocabulary of the properties of the tools *)

Ret(p) == locals[p].pc = "returned"

\* the dict call p returned
Res(p) == locals[p].result[1]

ToolOf(p) == args[p].tool

\* the values of a column of the sample call p fetched, nulls included
SampleColumn(p, k) ==
    LET kept == SelectSeq(locals[p].qr.rows, LAMBDA r : k <= Len(r))
    IN  [ i \in 1..Len(kept) |-> kept[i][k] ]

\* the place where x is first seen in values
FirstSeen(values, x) ==
    CHOOSE i \in 1..Len(values) :
        values[i] = x /\ \A j \in 1..(i - 1) : values[j] # x

\* examples are the first distinct values of `values`, in the order they are
\* first seen, without duplicates, as many as there are up to cap
FirstDistinct(examples, values, cap) ==
    LET xs == IF examples = Absent THEN << >> ELSE examples[1]
        distinct == Cardinality(Range(values))
    IN  /\ Len(xs) <= cap
        /\ Len(xs) = (IF distinct < cap THEN distinct ELSE cap)
        /\ \A i \in 1..Len(xs) : xs[i] \in Range(values)
        /\ \A i \in 1..Len(xs) : \A j \in (i + 1)..Len(xs) :
              /\ xs[i] # xs[j]
              /\ FirstSeen(values, xs[i]) < FirstSeen(values, xs[j])
        /\ \A i \in 1..Len(xs) : \A v \in Range(values) :
              FirstSeen(values, v) < FirstSeen(values, xs[i]) => v \in Range(xs)

----------------------------------------------------------------------------
(* Example values: C11 *)

\* C11: example_values has no duplicate entries, lists the values in the
\* order they are first seen in the sample, and holds at most 20 entries for
\* profile_column (of the non-null values) and at most 5 entries for every
\* column of describe_asset_schema.
C11_ExampleValues ==
    \A p \in Procs :
        /\ (Ret(p) /\ ToolOf(p) = "profile_column") =>
              FirstDistinct(Res(p).example_values,
                            NonNullValues(SampleColumn(p, 1)), 20)
        /\ (Ret(p) /\ ToolOf(p) = "describe_asset_schema") =>
              \A k \in 1..Len(Res(p).columns) :
                  FirstDistinct(Res(p).columns[k].example_values,
                                SampleColumn(p, k), 5)

\* a profile with 20 examples out of more distinct values, next to a schema
\* whose column shows 5 examples out of more, the sample repeating a value
C11_Witness ==
    \E p \in Procs, q \in Procs :
        /\ Ret(p) /\ ToolOf(p) = "profile_column"
        /\ Res(p).example_values # Absent
        /\ Len(Res(p).example_values[1]) = 20
        /\ Cardinality(Range(NonNullValues(SampleColumn(p, 1)))) > 20
        /\ Ret(q) /\ ToolOf(q) = "describe_asset_schema"
        /\ Len(Res(q).columns) = 1
        /\ Res(q).columns[1].example_values # Absent
        /\ Len(Res(q).columns[1].example_values[1]) = 5
        /\ Cardinality(Range(SampleColumn(q, 1))) > 5
        /\ Len(SampleColumn(q, 1)) > Cardinality(Range(SampleColumn(q, 1)))

\* a schema of a column that holds the same value twice
RepeatedValueWitness ==
    \E q \in Procs :
        /\ Ret(q) /\ ToolOf(q) = "describe_asset_schema"
        /\ Len(SampleColumn(q, 1)) = 2
        /\ Len(Res(q).columns) = 2
        /\ Res(q).columns[1].example_values = Some(<< PyInt(9) >>)

----------------------------------------------------------------------------
(* Repeated and concurrent calls: C12, C13 *)

SameCall(p, q) == args[p] = args[q] /\ locals[p].qr = locals[q].qr

OwnSamples(p) ==
    LET a == args[p]
        n == CapInt(a.top, CapOf(a.tool), 1)[1]
    IN  { ClientQueryResult(BackendAnswer(table, k, a.skip, SelectOf(a)), m) :
            k \in { n, 1, -1 }, m \in { n, 1 } }

\* what call p returns when it runs alone on the sample it fetched
AloneResult(p) ==
    LET a      == args[p]
        capped == CapInt(a.top, CapOf(a.tool), 1)
        q      == locals[p].qr
    IN  IF a.tool = "profile_column"
        THEN Profile(a.column_name, q, a.top, capped[1], max_rows_profile, capped[2])
        ELSE SchemaResult(q.columns, q.rows, a.top, locals[p].first_truncated)

\* C13: however two calls of profile_column or describe_asset_schema are
\* interleaved at their awaits, each call holds a sample fetched for its own
\* request and returns what it returns when run alone on that sample.
C13_NoInterference ==
    \A p \in Procs :
        (~mock_mode /\ ToolOf(p) \in { "profile_column", "describe_asset_schema" }) =>
            /\ locals[p].pc \in { "fetched", "fetched2", "returned" } =>
                  locals[p].qr \in OwnSamples(p)
            /\ Ret(p) => Res(p) = AloneResult(p)
            /\ locals[p].pc # "idle" =>
                  locals[p].effective_top = CapInt(args[p].top, CapOf(ToolOf(p)), 1)[1]

\* a profile_column call and a describe_asset_schema call with different
\* arguments have waited for the backend at once and both returned
C13_Witness ==
    /\ Procs = { 1, 2 }
    /\ overlapped
    /\ Ret(1) /\ Ret(2)
    /\ ToolOf(1) = "profile_column" /\ ToolOf(2) = "describe_asset_schema"
    /\ args[1].top # args[2].top
    /\ locals[1].qr # locals[2].qr
    /\ Res(1) = AloneResult(1) /\ Res(2) = AloneResult(2)

----------------------------------------------------------------------------
(* Row caps and the truncated flag: C14, C15 *)

Capped(p) == ToolOf(p) \in { "preview_asset", "query_relational" }

Clamp(v, lo, hi) == IF v < lo THEN lo ELSE IF v > hi THEN hi ELSE v

\* the clamp and the meta entries of a returned preview_asset or
\* query_relational call
CapAndMeta(p) ==
    LET c == CapOf(ToolOf(p))
        e == Clamp(args[p].top, 1, c)
        m == Res(p).meta
    IN  /\ locals[p].backend_tops[1] = e
        /\ m.requested_top = args[p].top
        /\ m.effective_top = e
        /\ m.cap_top = c
        /\ m.cap_applied = (e # args[p].top)

\* C14: preview_asset and query_relational ask the backend for effective_top,
\* the requested top clamped to [1, C], return at most effective_top rows, and
\* report requested_top, effective_top, cap_top = C and cap_applied, which is
\* true exactly when effective_top differs from the requested top.
C14_RowCap ==
    \A p \in Procs :
        (Ret(p) /\ Capped(p)) =>
            /\ CapAndMeta(p)
            /\ Len(Res(p).rows) <= Res(p).meta.effective_top

\* what the code keeps of C14: the clamp and the meta entries always, the
\* bound on the rows unless the client repeated its request without $top
RowCapUnlessRetried ==
    \A p \in Procs :
        (Ret(p) /\ Capped(p)) =>
            /\ CapAndMeta(p)
            /\ Len(locals[p].backend_tops) = 1 =>
                  Len(Res(p).rows) <= Res(p).meta.effective_top

\* a capped call has returned more rows than effective_top, the client having
\* repeated its request without $top
RowCapExceededWitness ==
    \E p \in Procs :
        /\ Ret(p) /\ Capped(p)
        /\ Res(p).meta.cap_applied
        /\ locals[p].backend_tops = << Res(p).meta.effective_top, -1 >>
        /\ Len(Res(p).rows) > Res(p).meta.effective_top

\* the rows of the asset from the first row the call asked for
Available(p) ==
    IF Len(table.rows) > args[p].skip THEN Len(table.rows) - args[p].skip ELSE 0

\* C15: the truncated flag returned with a sample is true exactly when the
\* asset holds more rows beyond the rows returned; an asset holding exactly as
\* many rows as were requested is not reported as truncated.
C15_TruncatedFlag ==
    \A p \in Procs :
        (Ret(p) /\ Capped(p)) =>
            (Res(p).truncated <=> Len(Res(p).rows) < Available(p))

\* what the code does: the mock client compares with the asset's row count, the
\* real client reports truncated whenever it got at least `top` rows
TruncatedAsComputed ==
    \A p \in Procs :
        (Ret(p) /\ Capped(p)) =>
            Res(p).truncated <=>
                IF mock_mode THEN Len(Res(p).rows) < Available(p)
                ELSE Len(Res(p).rows) >= Res(p).meta.effective_top

\* an asset holding exactly the rows asked for is reported as truncated
ExactFitTruncatedWitness ==
    \E p \in Procs :
        /\ Ret(p) /\ Capped(p) /\ ~mock_mode
        /\ locals[p].backend_tops = << args[p].top >>
        /\ Available(p) = args[p].top
        /\ Len(Res(p).rows) = args[p].top
        /\ Res(p).truncated

----------------------------------------------------------------------------
(* list_columns and its fallback: C20 *)

\* the $metadata fetch succeeded and parses to at least one column
MetadataUsable(p) ==
    /\ metadata.kind = "xml"
    /\ ParseRelationalMetadataColumns(metadata, args[p].max_columns) # << >>

Untyped(c) == c.type = Absent /\ c.nullable = Absent /\ c.is_key = FALSE

\* C20: a list_columns call that misses its cache returns the columns parsed
\* from the relational $metadata with meta.source = "relational_metadata" and
\* without a preview whenever the fetch succeeds and parses to at least one
\* column; otherwise (the fetch raises, the parse raises, or no column) it
\* returns the column names of a top=1 preview, cut to max_columns, with
\* meta.source = "sample_inference" and type, nullable absent and is_key false
\* for every column.
C20_ListColumnsFallback ==
    \A p \in Procs :
        (Ret(p) /\ ToolOf(p) = "list_columns" /\ ~locals[p].from_cache) =>
            LET out == Res(p)
                max == args[p].max_columns
            IN  IF MetadataUsable(p)
                THEN /\ out.columns = ParseRelationalMetadataColumns(metadata, max)
                     /\ out.meta.source = "relational_metadata"
                     /\ locals[p].previews = 0
                ELSE /\ out.meta.source = "sample_inference"
                     /\ locals[p].previews = 1
                     /\ locals[p].backend_tops[1] = 1
                     /\ Len(out.columns) = Len(Slice(locals[p].qr.columns, 0, max))
                     /\ \A k \in 1..Len(out.columns) :
                           /\ out.columns[k].name = locals[p].qr.columns[k]
                           /\ Untyped(out.columns[k])

\* the $metadata did not give a column (the fetch raised, the text did not
\* parse, or it holds no property) and list_columns returned the columns of a
\* top=1 preview
C20_Witness ==
    \E p \in Procs :
        /\ Ret(p) /\ ToolOf(p) = "list_columns" /\ ~locals[p].from_cache
        /\ ~MetadataUsable(p)
        /\ metadata.kind \in { "raises", "malformed", "xml" }
        /\ Res(p).meta.source = "sample_inference"
        /\ locals[p].previews = 1
        /\ Len(Res(p).columns) >= 1
        /\ Untyped(Res(p).columns[1])

\* the $metadata gave columns and list_columns returned them without a preview
MetadataColumnsWitness ==
    \E p \in Procs :
        /\ Ret(p) /\ ToolOf(p) = "list_columns" /\ ~locals[p].from_cache
        /\ MetadataUsable(p)
        /\ Res(p).meta.source = "relational_metadata"
        /\ locals[p].previews = 0
        /\ Res(p).columns[1].type # Absent

----------------------------------------------------------------------------
(* cache.py: TTLCache *)

\* a cache that is on whenever it has a ttl
EnabledByTtl == ttl_seconds > 0

\* TTLCache.enabled
Enabled == ttl_seconds > 0 /\ max_entries > 0

\* the position of key in the store, 0 if it has no entry
Find(s, key) ==
    IF \E i \in 1..Len(s) : s[i].key = key
    THEN CHOOSE i \in 1..Len(s) : s[i].key = key
    ELSE 0

\* OrderedDict.pop(key, None)
Pop(s, key) == SelectSeq(s, LAMBDA entry : entry.key # key)

\* a read that leaves the order as it is
MoveToEndSkipped(s, key) == s

\* OrderedDict.move_to_end(key)
MoveToEnd(s, key) == Append(Pop(s, key), s[Find(s, key)])

\* an entry that lives one second longer than it should
ExpiredLate(expires_at, t) == expires_at + 1 < t

\* the test get and purge_expired make on an entry: expires_at < now
Expired(expires_at, t) == expires_at < t

Bump(st, field) == [ st EXCEPT ![field] = @ + 1 ]

\* a get that finds nothing
GetNothing(s, st, key, t) ==
    [ store |-> s, stats |-> Bump(st, "misses"), value |-> Absent ]

\* TTLCache.get: the store, the statistics and the value after get(key) at
\* time t
Get(s, st, key, t) ==
    IF ~Enabled
    THEN [ store |-> s, stats |-> Bump(st, "misses"), value |-> Absent ]
    ELSE IF Find(s, key) = 0
    THEN [ store |-> s, stats |-> Bump(st, "misses"), value |-> Absent ]
    ELSE IF Expired(s[Find(s, key)].expires_at, t)
    THEN [ store |-> Pop(s, key),
           stats |-> Bump(Bump(st, "misses"), "expirations"),
           value |-> Absent ]
    ELSE [ store |-> MoveToEnd(s, key),
           stats |-> Bump(st, "hits"),
           value |-> Some(s[Find(s, key)].value) ]

\* a cache that never evicts
EvictNothing(s, st) == [ store |-> s, stats |-> st ]

\* TTLCache._evict_if_needed: oldest entries go until max_entries are left
EvictIfNeeded(s, st) ==
    IF Enabled /\ Len(s) > max_entries
    THEN [ store |-> SubSeq(s, Len(s) - max_entries + 1, Len(s)),
           stats |-> [ st EXCEPT !.evictions = @ + (Len(s) - max_entries) ] ]
    ELSE [ store |-> s, stats |-> st ]

\* TTLCache.set: the store and the statistics after set(key, value) at time t
Set(s, st, key, value, t) ==
    IF ~Enabled
    THEN [ store |-> s, stats |-> st ]
    ELSE EvictIfNeeded(
            Append(Pop(s, key),
                   [ key |-> key, expires_at |-> t + ttl_seconds, value |-> value ]),
            Bump(st, "sets"))

\* TTLCache.purge_expired: the store, the statistics and the count returned
PurgeExpired(s, st, t) ==
    LET kept == SelectSeq(s, LAMBDA entry : ~Expired(entry.expires_at, t))
    IN  IF ~Enabled \/ s = << >>
        THEN [ store |-> s, stats |-> st, count |-> 0 ]
        ELSE [ store |-> kept,
               stats |-> [ st EXCEPT !.expirations = @ + (Len(s) - Len(kept)) ],
               count |-> Len(s) - Len(kept) ]

\* TTLCache.stats
Stats(s, st) ==
    [ enabled |-> Enabled, ttl_seconds |-> ttl_seconds, max_entries |-> max_entries,
      size |-> Len(s), hits |-> st.hits, misses |-> st.misses, sets |-> st.sets,
      evictions |-> st.evictions, expirations |-> st.expirations ]

----------------------------------------------------------------------------
(* The cache under load: configurations, keys, values, the clock *)

\* most cache operations and tool calls in one run
MaxOps == 4

\* how far the clock runs, in seconds
MaxTime == 3

\* DATASPHERE_CACHE_TTL_SECONDS and DATASPHERE_CACHE_MAX_ENTRIES: unset, set to
\* small values, set to 0 (which disables the cache)
CacheConfigs ==
    { << CacheTtlDefault, CacheMaxEntriesDefault >>,
      << 0, 2 >>, << 2, 0 >>, << 1, 1 >>, << 1, 2 >>, << 2, 1 >>, << 2, 2 >> }

ListSpacesKey == "list_spaces"

\* the keys of list_assets and list_columns
OtherKeys == { "list_assets", "list_columns" }

Keys == { ListSpacesKey } \cup OtherKeys

\* what the other tools store
CacheValues == { [ assets |-> << >> ], [ assets |-> << "A" >> ] }

\* what list_assets and list_columns store next to list_spaces
AssetsOut == [ assets |-> << "A" >> ]

\* what client.list_spaces can return
SpacesChoices == { << >>, << "MOCK_SALES" >> }

\* a cache of some configuration, just created
CacheInit ==
    /\ now = 0
    /\ \E c \in CacheConfigs : ttl_seconds = c[1] /\ max_entries = c[2]
    /\ store = << >>
    /\ stats = NoStats
    /\ ret = NoRet
    /\ listing = NoListing
    /\ backend_calls = 0
    /\ diag = Absent
    /\ ops = 0
    /\ ProfileOff
    /\ max_rows_profile = MaxRowsProfileDefault
    /\ ToolsIdle
    /\ PluginsIdle
    /\ RestIdle

cacheConfig == << ttl_seconds, max_entries >>

\* cache.get(key), called by a tool or directly
CacheGet(key) ==
    /\ ops < MaxOps
    /\ LET g == Get(store, stats, key, now)
       IN  /\ store' = g.store
           /\ stats' = g.stats
           /\ ret' = [ op |-> "get", key |-> key, value |-> g.value ]
    /\ ops' = ops + 1
    /\ UNCHANGED << now, cacheConfig, listing, backend_calls, diag >>
    /\ UNCHANGED << profileVars, toolVars, pluginVars, restVars >>

\* cache.set(key, value), called by a tool or directly
CacheSet(key, value) ==
    /\ ops < MaxOps
    /\ LET s == Set(store, stats, key, value, now)
       IN  /\ store' = s.store
           /\ stats' = s.stats
    /\ ret' = [ op |-> "set", key |-> key, value |-> Absent ]
    /\ ops' = ops + 1
    /\ UNCHANGED << now, cacheConfig, listing, backend_calls, diag >>
    /\ UNCHANGED << profileVars, toolVars, pluginVars, restVars >>

\* cache.purge_expired()
CachePurgeExpired ==
    /\ ops < MaxOps
    /\ LET g == PurgeExpired(store, stats, now)
       IN  /\ store' = g.store
           /\ stats' = g.stats
           /\ ret' = [ op |-> "purge_expired", key |-> "", value |-> Some(g.count) ]
    /\ ops' = ops + 1
    /\ UNCHANGED << now, cacheConfig, listing, backend_calls, diag >>
    /\ UNCHANGED << profileVars, toolVars, pluginVars, restVars >>

\* cache.clear(): the store is emptied, the statistics stay
CacheClear ==
    /\ ops < MaxOps
    /\ store' = << >>
    /\ ret' = [ op |-> "clear", key |-> "", value |-> Absent ]
    /\ ops' = ops + 1
    /\ UNCHANGED << now, cacheConfig, stats, listing, backend_calls, diag >>
    /\ UNCHANGED << profileVars, toolVars, pluginVars, restVars >>

\* a second passes
Tick ==
    /\ now < MaxTime
    /\ now' = now + 1
    /\ UNCHANGED << cacheConfig, store, stats, ret, listing, backend_calls, diag, ops >>
    /\ UNCHANGED << profileVars, toolVars, pluginVars, restVars >>

CacheNext ==
    \/ \E key \in Keys : CacheGet(key)
    \/ \E key \in Keys, value \in CacheValues : CacheSet(key, value)
    \/ CachePurgeExpired
    \/ CacheClear
    \/ Tick

\* TTLCache on its own, under any sequence of its operations
CacheSpec == CacheInit /\ [][CacheNext]_vars

----------------------------------------------------------------------------
(* The size bound and expiry of TTLCache: C17, C18 *)

\* the step is a call of the named cache operation
Called(op) == ops' = ops + 1 /\ ret'.op = op

\* 1 if set(key, ...) adds an entry, 0 if it replaces one
Fresh(key) == IF Find(store, key) = 0 THEN 1 ELSE 0

\* C17: on an enabled cache the number of stored entries never exceeds
\* max_entries; a set that would exceed it evicts oldest entries until
\* max_entries are left, each eviction is counted in the evictions statistic,
\* and no other operation evicts.
C17_SizeBounded ==
    [][ Enabled =>
          /\ Len(store') <= max_entries
          /\ IF Called("set")
             THEN LET grown   == Len(store) + Fresh(ret'.key)
                      evicted == grown - Len(store')
                      older   == Pop(store, ret'.key)
                  IN  /\ Len(store') = IF grown > max_entries THEN max_entries ELSE grown
                      /\ stats'.evictions = stats.evictions + evicted
                      /\ store'[Len(store')].key = ret'.key
                      /\ \A i \in 1..(Len(store') - 1) : store'[i] = older[i + evicted]
             ELSE stats'.evictions = stats.evictions ]_vars

\* a set on a full cache has evicted the oldest entry, for the second time
C17_Witness ==
    /\ Enabled
    /\ ret.op = "set"
    /\ Len(store) = max_entries
    /\ stats.evictions = 2
    /\ stats.sets = stats.evictions + max_entries

\* what get(key) does, the entry counting as fresh while its age plus `slack`
\* is at most ttl_seconds
GetContract(slack) ==
    Called("get") =>
        LET key == ret'.key
            i   == Find(store, key)
            age == now - (store[i].expires_at - ttl_seconds)
        IN  IF Enabled /\ i # 0 /\ age + slack <= ttl_seconds
            THEN /\ ret'.value = Some(store[i].value)
                 /\ stats'.hits = stats.hits + 1
                 /\ stats'.misses = stats.misses
                 /\ Find(store', key) # 0
            ELSE /\ ret'.value = Absent
                 /\ stats'.misses = stats.misses + 1
                 /\ stats'.hits = stats.hits
                 /\ IF Enabled /\ i # 0
                    THEN /\ store' = Pop(store, key)
                         /\ stats'.expirations = stats.expirations + 1
                    ELSE /\ store' = store
                         /\ stats'.expirations = stats.expirations

\* C18 as stated: get(key) returns the stored value only if the key was last
\* set less than ttl_seconds ago, otherwise None; an expired entry found by get
\* is removed and counted as one miss and one expiration.
C18_GetWithinTtlStrict == [][ GetContract(1) ]_vars

\* C18: get(key) returns the stored value if the key has an entry that was set
\* at most ttl_seconds ago, otherwise None; an expired entry found by get is
\* removed from the store and counted as one miss and one expiration.
C18_GetWithinTtl == [][ GetContract(0) ]_vars

\* get has returned the value of an entry set exactly ttl_seconds ago
C18_Witness ==
    /\ Enabled
    /\ ret.op = "get"
    /\ ret.value # Absent
    /\ Find(store, ret.key) # 0
    /\ store[Find(store, ret.key)].expires_at = now
    /\ stats.hits = 1

\* get has found an expired entry: it answered None and removed the entry
ExpiredEntryRemovedWitness ==
    /\ Enabled
    /\ ret.op = "get"
    /\ ret.value = Absent
    /\ stats = [ NoStats EXCEPT !.sets = 1, !.misses = 1, !.expirations = 1 ]
    /\ store = << >>

----------------------------------------------------------------------------
(* tasks.py: list_spaces and diagnostics in front of the cache *)

\* list_spaces finds its key in the cache and returns the cached dict
ListSpacesCached ==
    /\ listing.pc # "awaiting"
    /\ ops < MaxOps
    /\ LET g == Get(store, stats, ListSpacesKey, now)
       IN  /\ g.value # Absent
           /\ store' = g.store
           /\ stats' = g.stats
           /\ listing' = [ listing EXCEPT !.pc = "returned", !.n = @ + 1,
                                          !.result = g.value, !.from_cache = TRUE ]
    /\ ops' = ops + 1
    /\ UNCHANGED << now, cacheConfig, ret, backend_calls, diag >>
    /\ UNCHANGED << profileVars, toolVars, pluginVars, restVars >>

\* list_spaces misses the cache and awaits client.list_spaces()
ListSpacesCall ==
    /\ listing.pc # "awaiting"
    /\ ops < MaxOps
    /\ LET g == Get(store, stats, ListSpacesKey, now)
       IN  /\ g.value = Absent
           /\ store' = g.store
           /\ stats' = g.stats
    /\ listing' = [ listing EXCEPT !.pc = "awaiting", !.result = Absent,
                                   !.from_cache = FALSE ]
    /\ backend_calls' = backend_calls + 1
    /\ ops' = ops + 1
    /\ UNCHANGED << now, cacheConfig, ret, diag >>
    /\ UNCHANGED << profileVars, toolVars, pluginVars, restVars >>

\* client.list_spaces() returns: the dict is built, cached and returned
ListSpacesReturn(spaces) ==
    /\ listing.pc = "awaiting"
    /\ LET out == [ spaces |-> spaces ]
           s   == Set(store, stats, ListSpacesKey, out, now)
       IN  /\ store' = s.store
           /\ stats' = s.stats
           /\ listing' = [ listing EXCEPT
                  !.pc = "returned", !.n = @ + 1, !.result = Some(out),
                  !.last_set = IF Enabled
                               THEN Some([ expires_at |-> now + ttl_seconds,
                                           value |-> out ])
                               ELSE @ ]
    /\ UNCHANGED << now, cacheConfig, ret, backend_calls, diag, ops >>
    /\ UNCHANGED << profileVars, toolVars, pluginVars, restVars >>

\* client.list_spaces() raises: so does list_spaces, nothing is cached
ListSpacesRaises ==
    /\ listing.pc = "awaiting"
    /\ listing' = [ listing EXCEPT !.pc = "raised", !.n = @ + 1 ]
    /\ UNCHANGED << now, cacheConfig, store, stats, ret, backend_calls, diag, ops >>
    /\ UNCHANGED << profileVars, toolVars, pluginVars, restVars >>

\* diagnostics: purge_expired, then the statistics go into meta.cache
Diagnostics ==
    /\ ops < MaxOps
    /\ LET g == PurgeExpired(store, stats, now)
       IN  /\ store' = g.store
           /\ stats' = g.stats
           /\ diag' = Some(Stats(g.store, g.stats))
    /\ ret' = [ op |-> "diagnostics", key |-> "", value |-> Absent ]
    /\ ops' = ops + 1
    /\ UNCHANGED << now, cacheConfig, listing, backend_calls >>
    /\ UNCHANGED << profileVars, toolVars, pluginVars, restVars >>

ListingNext ==
    \/ ListSpacesCached
    \/ ListSpacesCall
    \/ \E spaces \in SpacesChoices : ListSpacesReturn(spaces)
    \/ ListSpacesRaises
    \/ Diagnostics
    \/ \E key \in OtherKeys : CacheGet(key)
    \/ \E key \in OtherKeys : CacheSet(key, AssetsOut)
    \/ Tick

\* list_spaces and diagnostics among the other tools that use the cache
ListingSpec == CacheInit /\ [][ListingNext]_vars

----------------------------------------------------------------------------
(* The cache hit of list_spaces: C16 *)

\* the step starts a list_spaces call
ListSpacesStarts == listing.pc # "awaiting" /\ listing' # listing

\* the step is a diagnostics call
DiagnosticsRuns == Called("diagnostics") /\ listing' = listing

\* the step answers the call from the cache with the given dict
AnsweredFromCache(value) ==
    /\ listing'.pc = "returned"
    /\ listing'.from_cache
    /\ listing'.result = Some(value)
    /\ backend_calls' = backend_calls
    /\ stats'.hits = stats.hits + 1

\* the result of an earlier list_spaces call is time units from expiring
EarlierResultFresh ==
    /\ Enabled
    /\ listing.last_set # Absent
    /\ now < listing.last_set[1].expires_at

\* the cache holds an unexpired entry of list_spaces
EntryFresh(s) ==
    /\ Enabled
    /\ Find(s, ListSpacesKey) # 0
    /\ ~Expired(s[Find(s, ListSpacesKey)].expires_at, now)

\* C16 as stated: with caching enabled, a list_spaces call made before the
\* result of an earlier call expires returns the cached result without calling
\* the backend, and diagnostics then shows at least one hit and a size of at
\* least one.
C16_SecondCallCached ==
    [][ /\ (ListSpacesStarts /\ EarlierResultFresh) =>
              AnsweredFromCache(listing.last_set[1].value)
        /\ (DiagnosticsRuns /\ EarlierResultFresh /\ listing.from_cache) =>
              diag'[1].hits >= 1 /\ diag'[1].size >= 1 ]_vars

\* C16: with caching enabled, a list_spaces call that returns from the backend
\* leaves its result in the cache; a later call made before that entry expires
\* and while it is still stored (no set of another tool has evicted it) returns
\* the cached result without calling the backend; diagnostics then shows at
\* least one hit, and a size of at least one while the entry is stored and
\* unexpired.
C16_SecondCallCachedWhileStored ==
    [][ /\ (Enabled /\ listing.pc = "awaiting" /\ listing'.pc = "returned") =>
              /\ Find(store', ListSpacesKey) # 0
              /\ store'[Find(store', ListSpacesKey)] =
                    [ key |-> ListSpacesKey, expires_at |-> now + ttl_seconds,
                      value |-> listing'.result[1] ]
        /\ (ListSpacesStarts /\ EntryFresh(store)) =>
              /\ AnsweredFromCache(store[Find(store, ListSpacesKey)].value)
              /\ listing.last_set # Absent
              /\ listing'.result = Some(listing.last_set[1].value)
        /\ (DiagnosticsRuns /\ listing.from_cache) => diag'[1].hits >= 1
        /\ (DiagnosticsRuns /\ EntryFresh(store)) => diag'[1].size >= 1 ]_vars

\* the second list_spaces call was answered from the cache, the backend was
\* called once, and diagnostics has shown the hit and the entry
C16_Witness ==
    /\ Enabled
    /\ listing.n = 2
    /\ listing.pc = "returned"
    /\ listing.from_cache
    /\ listing.result = Some(listing.last_set[1].value)
    /\ backend_calls = 1
    /\ diag # Absent
    /\ diag[1].hits = 1
    /\ diag[1].size >= 1

\* the second call goes to the backend although the first result has not
\* expired: a set of another tool has evicted it
EvictedBeforeSecondCallWitness ==
    /\ Enabled
    /\ listing.n = 1
    /\ listing.pc = "awaiting"
    /\ backend_calls = 2
    /\ listing.last_set # Absent
    /\ now < listing.last_set[1].expires_at
    /\ stats.evictions >= 1
    /\ stats.expirations = 0

----------------------------------------------------------------------------
(* plugins/registry.py: the plugin loader *)

IsSpace(c) == c = 32

\* str.strip()
Strip(s) ==
    LET inner == { i \in 1..Len(s) : ~IsSpace(s[i]) }
    IN  IF inner = { } THEN << >>
        ELSE SubSeq(s, CHOOSE i \in inner : \A j \in inner : i <= j,
                       CHOOSE i \in inner : \A j \in inner : j <= i)

\* get_configured_plugins on DATASPHERE_PLUGINS split at the commas: every
\* item stripped, the empty ones dropped
GetConfiguredPlugins(items) ==
    SelectSeq([ k \in 1..Len(items) |-> Strip(items[k]) ], LAMBDA name : name # << >>)

\* get_plugin_status: the status list as dicts
GetPluginStatus(status) ==
    [ k \in 1..Len(status) |->
        [ name |-> status[k].name, ok |-> status[k].ok, error |-> status[k].error ] ]

\* a handler that catches import errors only
CaughtImportErrorOnly(exc) == exc = "ModuleNotFoundError"

\* except Exception: the handler of register_plugins catches what a plugin
\* raises, import errors and the errors of register_tools alike
Caught(exc) == exc \in { "ModuleNotFoundError", "ValueError" }

NotCallableMessage == "Module does not export callable register_tools(server)."

----------------------------------------------------------------------------
(* Plugin lists the loader is run on *)

\* most items in DATASPHERE_PLUGINS
MaxPlugins == 3

\* most calls of register_plugins in one run
MaxLoads == 2

\* the items of DATASPHERE_PLUGINS: "a", " b " and an empty item
EnvItems == { << 97 >>, << 32, 98, 32 >>, << >> }

EnvChoices == UNION { [ 1..n -> EnvItems ] : n \in 0..MaxPlugins }

PluginInit ==
    /\ plugins_env \in EnvChoices
    /\ plugin_status = << >>
    /\ reg = NoRegistration
    /\ report = Absent
    /\ loads = 0
    /\ ProfileOff
    /\ max_rows_profile = MaxRowsProfileDefault
    /\ ToolsIdle
    /\ CacheIdle
    /\ RestIdle

otherVars == << profileVars, toolVars, cacheVars, restVars >>

\* DATASPHERE_PLUGINS is set anew between two calls
SetEnv(items) ==
    /\ reg.pc \in { "returned", "raised" }
    /\ loads < MaxLoads
    /\ items # plugins_env
    /\ plugins_env' = items
    /\ reg' = [ reg EXCEPT !.pc = "idle" ]
    /\ UNCHANGED << plugin_status, report, loads, otherVars >>

\* register_plugins with no plugin configured: the status is reset and an
\* empty report returned
RegisterPluginsEmpty ==
    /\ reg.pc \in { "idle", "returned", "raised" }
    /\ loads < MaxLoads
    /\ GetConfiguredPlugins(plugins_env) = << >>
    /\ plugin_status' = << >>
    /\ reg' = [ NoRegistration EXCEPT !.pc = "returned" ]
    /\ report' = Some([ plugins |-> << >>, loaded |-> 0, failed |-> 0 ])
    /\ loads' = loads + 1
    /\ UNCHANGED << plugins_env, otherVars >>

\* register_plugins with plugins configured: the status is reset and the loop
\* entered
RegisterPluginsCall ==
    /\ reg.pc \in { "idle", "returned", "raised" }
    /\ loads < MaxLoads
    /\ GetConfiguredPlugins(plugins_env) # << >>
    /\ plugin_status' = << >>
    /\ reg' = [ NoRegistration EXCEPT !.pc = "loop", !.i = 1,
                                      !.plugins = GetConfiguredPlugins(plugins_env) ]
    /\ report' = Absent
    /\ loads' = loads + 1
    /\ UNCHANGED << plugins_env, otherVars >>

InLoop == reg.pc = "loop" /\ reg.i <= Len(reg.plugins)

\* the loop body's way out when the plugin raised exc: the handler records the
\* failure and the loop goes on, or the exception leaves register_plugins
Raised(exc, text) ==
    IF Caught(exc)
    THEN /\ plugin_status' = Append(plugin_status,
                [ name |-> reg.plugins[reg.i], ok |-> FALSE, error |-> Some(text) ])
         /\ reg' = [ reg EXCEPT !.i = @ + 1, !.failed = @ + 1 ]
    ELSE /\ plugin_status' = plugin_status
         /\ reg' = [ reg EXCEPT !.pc = "raised", !.error = exc ]

\* the module is imported and its register_tools(server) returns
PluginLoaded ==
    /\ InLoop
    /\ plugin_status' = Append(plugin_status,
            [ name |-> reg.plugins[reg.i], ok |-> TRUE, error |-> Absent ])
    /\ reg' = [ reg EXCEPT !.i = @ + 1, !.loaded = @ + 1 ]
    /\ UNCHANGED << plugins_env, report, loads, otherVars >>

\* importlib.import_module raises
PluginImportFails ==
    /\ InLoop
    /\ Raised("ModuleNotFoundError", "No module named plugin")
    /\ UNCHANGED << plugins_env, report, loads, otherVars >>

\* the module has no callable register_tools
PluginWithoutRegisterTools ==
    /\ InLoop
    /\ plugin_status' = Append(plugin_status,
            [ name |-> reg.plugins[reg.i], ok |-> FALSE,
              error |-> Some(NotCallableMessage) ])
    /\ reg' = [ reg EXCEPT !.i = @ + 1, !.failed = @ + 1 ]
    /\ UNCHANGED << plugins_env, report, loads, otherVars >>

\* register_tools(server) raises
PluginRegisterToolsRaises ==
    /\ InLoop
    /\ Raised("ValueError", "register_tools failed")
    /\ UNCHANGED << plugins_env, report, loads, otherVars >>

\* the loop is over: the report is returned
RegisterPluginsReturn ==
    /\ reg.pc = "loop"
    /\ reg.i > Len(reg.plugins)
    /\ reg' = [ reg EXCEPT !.pc = "returned" ]
    /\ report' = Some([ plugins |-> GetPluginStatus(plugin_status),
                        loaded |-> reg.loaded, failed |-> reg.failed ])
    /\ UNCHANGED << plugins_env, plugin_status, loads, otherVars >>

PluginNext ==
    \/ \E items \in EnvChoices : SetEnv(items)
    \/ RegisterPluginsEmpty
    \/ RegisterPluginsCall
    \/ PluginLoaded
    \/ PluginImportFails
    \/ PluginWithoutRegisterTools
    \/ PluginRegisterToolsRaises
    \/ RegisterPluginsReturn

PluginSpec == PluginInit /\ [][PluginNext]_vars

----------------------------------------------------------------------------
(* Plugin failures stay inside the loader: C19 *)

Configured == GetConfiguredPlugins(plugins_env)

Failures(status) == { k \in 1..Len(status) : ~status[k].ok }

\* C19: register_plugins does not raise when a plugin fails to import, lacks a
\* callable register_tools or raises inside register_tools; it goes on to the
\* remaining plugins and returns a report in which loaded + failed is the
\* number of configured plugins, and the status list holds exactly one entry
\* per configured plugin, in configured order, with nothing left of an earlier
\* load attempt.
C19_PluginFailuresContained ==
    /\ reg.pc # "raised"
    /\ reg.pc = "loop" =>
          /\ reg.plugins = Configured
          /\ Len(plugin_status) = reg.i - 1
          /\ reg.loaded + reg.failed = reg.i - 1
          /\ \A k \in 1..Len(plugin_status) : plugin_status[k].name = Configured[k]
    /\ reg.pc = "returned" =>
          /\ report # Absent
          /\ report[1].loaded + report[1].failed = Len(Configured)
          /\ report[1].failed = Cardinality(Failures(plugin_status))
          /\ report[1].plugins = GetPluginStatus(plugin_status)
          /\ Len(plugin_status) = Len(Configured)
          /\ \A k \in 1..Len(plugin_status) :
                /\ plugin_status[k].name = Configured[k]
                /\ plugin_status[k].ok <=> plugin_status[k].error = Absent

\* a second load of three plugins has returned: one plugin is loaded after one
\* failed to import, and register_tools of the last one raised
C19_Witness ==
    /\ loads = 2
    /\ reg.pc = "returned"
    /\ Len(Configured) = 3
    /\ report[1].loaded = 1 /\ report[1].failed = 2
    /\ ~plugin_status[1].ok /\ plugin_status[2].ok /\ ~plugin_status[3].ok
    /\ plugin_status[1].error # plugin_status[3].error
    /\ Len(plugins_env) = 3

----------------------------------------------------------------------------
(* Values that are no numbers: C25 *)

\* positions of the non-null values that do not coerce to a number
NotCoercibleAt == { i \in NonNullAt : ToFloat(Sample[i]) = Absent }

\* C25: a non-null value that cannot be coerced to a number is left out of the
\* numeric subset only: profile_column does not raise on it, the value counts
\* in total_count and non_null_count, its type is among the types, it is
\* counted in the categorical frequencies, and numeric_summary is absent
\* exactly when no non-null value coerces to a number.
C25_NotCoercibleValues ==
    /\ pc = "raised" => qr.columns = << >>
    /\ Returned =>
          /\ P.total_count = Len(Sample)
          /\ P.non_null_count = N
          /\ P.null_count = Len(Sample) - N
          /\ (P.numeric_summary = Absent) <=> ~HasNumeric
          /\ P.numeric_summary # Absent =>
                NS.min \in NumericValues /\ NS.max \in NumericValues
          /\ \A i \in NotCoercibleAt :
                /\ P.types # Absent
                /\ TypeName(Sample[i]) \in Range(P.types[1])
                /\ P.categorical_summary # Absent =>
                      /\ CS.total_sampled = N
                      /\ CS.unique_values = D
                      /\ D <= TopValuesCap =>
                            \E k \in 1..Len(TV) :
                               /\ TV[k].value = Sample[i]
                               /\ TV[k].count = Occurrences(Sample[i])

\* a sample of a text that is no number next to numbers: the profile has a
\* numeric summary of the numbers and counts the text where it counts values
C25_Witness ==
    /\ Returned
    /\ NotCoercibleAt # { }
    /\ HasNumeric
    /\ P.numeric_summary # Absent
    /\ P.categorical_summary # Absent
    /\ P.non_null_count = N
    /\ N > Cardinality(NotCoercibleAt)

\* a sample without any number: no numeric summary, and no error
NoNumberWitness ==
    /\ Returned
    /\ N >= 2
    /\ NotCoercibleAt = NonNullAt
    /\ P.numeric_summary = Absent
    /\ P.categorical_summary # Absent

----------------------------------------------------------------------------
(* The observed types: C26 *)

\* `types` lists the kinds of the non-null values of `values`, each once, by
\* descending count, equally frequent kinds in the order they are first seen
TypesOf(types, values) ==
    LET ts    == IF types = Absent THEN << >> ELSE types[1]
        nn    == SelectSeq(values, LAMBDA v : v # PyNone)
        kinds == [ i \in 1..Len(nn) |-> TypeName(nn[i]) ]
    IN  /\ Range(ts) = Range(kinds)
        /\ Len(ts) = Cardinality(Range(kinds))
        /\ "NoneType" \notin Range(ts)
        /\ \A i \in 1..Len(ts) : \A j \in (i + 1)..Len(ts) :
              \/ CountOf(kinds, ts[i]) > CountOf(kinds, ts[j])
              \/ /\ CountOf(kinds, ts[i]) = CountOf(kinds, ts[j])
                 /\ FirstSeen(kinds, ts[i]) < FirstSeen(kinds, ts[j])

\* C26: types of profile_column and python_types of every column of
\* describe_asset_schema hold each kind of value seen among the non-null
\* values exactly once, by descending count, ties in first-seen order; nulls
\* add no entry.
C26_ObservedTypes ==
    \A p \in Procs :
        /\ (Ret(p) /\ ToolOf(p) = "profile_column") =>
              TypesOf(Res(p).types, SampleColumn(p, 1))
        /\ (Ret(p) /\ ToolOf(p) = "describe_asset_schema") =>
              \A k \in 1..Len(Res(p).columns) :
                 TypesOf(Res(p).columns[k].python_types, SampleColumn(p, k))

\* a profile whose more frequent kind was seen second, and a schema of a
\* sample with a null
C26_Witness ==
    \E p \in Procs :
        /\ Ret(p) /\ ToolOf(p) = "profile_column"
        /\ Res(p).types = Some(<< "str", "int" >>)
        /\ TypeName(SampleColumn(p, 1)[1]) = "int"
        /\ PyNone \in Range(SampleColumn(p, 1))

\* two kinds seen equally often stay in first-seen order, in a schema
TypesTieWitness ==
    \E p \in Procs :
        /\ Ret(p) /\ ToolOf(p) = "describe_asset_schema"
        /\ Len(Res(p).columns) = 1
        /\ Res(p).columns[1].python_types = Some(<< "str", "int" >>)
        /\ Len(SampleColumn(p, 1)) = 2
        /\ TypeName(SampleColumn(p, 1)[1]) = "str"

----------------------------------------------------------------------------
(* Which entry is evicted: C29 *)

StoreKeys(s) == [ i \in 1..Len(s) |-> s[i].key ]

\* the keys of s without key, in their order
KeysWithout(s, key) == StoreKeys(Pop(s, key))

\* keys is what is left of longer after its first entries are dropped
IsSuffix(keys, longer) ==
    /\ Len(keys) <= Len(longer)
    /\ keys = SubSeq(longer, Len(longer) - Len(keys) + 1, Len(longer))

\* C29: the store keeps its keys in the order of their last use, a set and a
\* successful get both moving the key behind every other key, and nothing else
\* changing the order; a set that forces an eviction drops keys from the front,
\* so a key used after another key is never evicted before it.
C29_LeastRecentlyUsedEvicted ==
    [][ Enabled =>
          /\ (Called("get") /\ ret'.value # Absent) =>
                StoreKeys(store') = Append(KeysWithout(store, ret'.key), ret'.key)
          /\ (Called("get") /\ ret'.value = Absent) =>
                StoreKeys(store') = KeysWithout(store, ret'.key)
          /\ Called("set") =>
                IsSuffix(StoreKeys(store'),
                         Append(KeysWithout(store, ret'.key), ret'.key))
          /\ (Called("purge_expired") \/ Called("clear")) =>
                \A i \in 1..Len(store'), j \in 1..Len(store') :
                   i < j => \E a \in 1..Len(store), b \in 1..Len(store) :
                               a < b /\ store[a] = store'[i] /\ store[b] = store'[j] ]_vars

\* of two stored keys the one set first was read again, and the set of a third
\* key has evicted the other one
C29_Witness ==
    /\ max_entries = 2
    /\ ret.op = "set"
    /\ stats = [ NoStats EXCEPT !.sets = 3, !.hits = 1, !.evictions = 1 ]
    /\ Len(store) = 2
    /\ store[1].expires_at < store[2].expires_at
    /\ store[2].key = ret.key
    /\ now = 2

----------------------------------------------------------------------------
(* The disabled cache: C30 *)

Disabled == ttl_seconds <= 0 \/ max_entries <= 0

\* C30: on a disabled cache set leaves the store and the sets counter as they
\* are, get returns None and counts a miss, and a list_spaces call misses and
\* goes to the backend.
C30_DisabledCache ==
    [][ Disabled =>
          /\ store' = store
          /\ stats'.sets = stats.sets
          /\ stats'.hits = stats.hits
          /\ Called("get") =>
                ret'.value = Absent /\ stats'.misses = stats.misses + 1
          /\ ListSpacesStarts =>
                /\ listing'.pc = "awaiting"
                /\ ~listing'.from_cache
                /\ backend_calls' = backend_calls + 1
                /\ stats'.misses = stats.misses + 1 ]_vars

\* with the cache disabled list_spaces has run twice and gone to the backend
\* twice, and a set of another tool has stored nothing
C30_Witness ==
    /\ Disabled
    /\ listing.n = 2
    /\ listing.pc = "returned"
    /\ backend_calls = 2
    /\ ret.op = "set"
    /\ store = << >>
    /\ stats = [ NoStats EXCEPT !.misses = 2 ]

----------------------------------------------------------------------------
(* tasks.py: the module-level cache and its signature *)

\* the configuration pairs the environment is switched between
EnvConfigs ==
    { << CacheTtlDefault, CacheMaxEntriesDefault >>, << 2, 2 >>, << 2, 1 >>, << 0, 2 >> }

\* only the ttl of the signature is compared
StaleByTtl(signature) ==
    cache_id = 0 \/ cache_signature[1][1] # signature[1]

\* _CACHE is None or _CACHE_SIGNATURE != signature
Stale(signature) ==
    cache_id = 0 \/ cache_signature # Some(signature)

\* _get_cache(cfg): the cache it returns, as (id, attributes, store, statistics)
GetCache(cfg) ==
    LET signature == cfg
    IN  IF Stale(signature)
        THEN [ id |-> cache_id + 1, signature |-> Some(signature),
               ttl_seconds |-> signature[1], max_entries |-> signature[2],
               store |-> << >>, stats |-> NoStats ]
        ELSE [ id |-> cache_id, signature |-> cache_signature,
               ttl_seconds |-> ttl_seconds, max_entries |-> max_entries,
               store |-> store, stats |-> stats ]

\* the process has started: _CACHE is None, _CACHE_SIGNATURE is None
GetCacheInit ==
    /\ now = 0
    /\ cache_env \in EnvConfigs
    /\ cache_signature = Absent
    /\ cache_id = 0
    /\ ttl_seconds = CacheTtlDefault
    /\ max_entries = CacheMaxEntriesDefault
    /\ store = << >>
    /\ stats = NoStats
    /\ ret = NoRet
    /\ listing = NoListing
    /\ backend_calls = 0
    /\ diag = Absent
    /\ ops = 0
    /\ ProfileOff
    /\ max_rows_profile = MaxRowsProfileDefault
    /\ ToolsIdle
    /\ PluginsIdle
    /\ ClientIdle
    /\ DiagIdle
    /\ InfoIdle
    /\ FindIdle

\* DATASPHERE_CACHE_TTL_SECONDS or DATASPHERE_CACHE_MAX_ENTRIES is changed
SetCacheEnv(c) ==
    /\ c # cache_env
    /\ cache_env' = c
    /\ UNCHANGED << cache_signature, cache_id >>
    /\ UNCHANGED << cacheVars, getCacheFrame >>

\* _get_cache(DatasphereConfig.from_env())
GetCacheCall ==
    /\ ops < MaxOps
    /\ LET c == GetCache(cache_env)
       IN  /\ cache_id' = c.id
           /\ cache_signature' = c.signature
           /\ ttl_seconds' = c.ttl_seconds
           /\ max_entries' = c.max_entries
           /\ store' = c.store
           /\ stats' = c.stats
           /\ ret' = [ op |-> "get_cache", key |-> "", value |-> Some(c.id),
                       dropped |-> IF c.id = cache_id THEN 0 ELSE Len(store) ]
    /\ ops' = ops + 1
    /\ UNCHANGED << cache_env, now, listing, backend_calls, diag >>
    /\ UNCHANGED getCacheFrame

\* the cache a tool has just got from _get_cache
Current == cache_id # 0 /\ cache_signature = Some(cache_env)

GetCacheNext ==
    \/ \E c \in EnvConfigs : SetCacheEnv(c)
    \/ GetCacheCall
    \/ \E key \in Keys : Current /\ CacheGet(key)
    \/ \E key \in Keys, value \in CacheValues : Current /\ CacheSet(key, value)
    \/ Tick

\* the tools' use of the module-level cache while the environment changes
GetCacheSpec == GetCacheInit /\ [][GetCacheNext]_vars

\* C28: _get_cache returns the same cache, entries and statistics retained,
\* while the pair (cache_ttl_seconds, cache_max_entries) is the one of the
\* call before, and a new empty cache with fresh statistics, made for the new
\* pair, once either value differs; no other step changes which cache is in use.
C28_CacheBySignature ==
    [][ IF Called("get_cache")
        THEN /\ cache_signature' = Some(cache_env)
             /\ ret'.value = Some(cache_id')
             /\ IF cache_id # 0 /\ cache_signature = Some(cache_env)
                THEN /\ cache_id' = cache_id
                     /\ store' = store
                     /\ stats' = stats
                     /\ cacheConfig' = cacheConfig
                ELSE /\ cache_id' = cache_id + 1
                     /\ store' = << >>
                     /\ stats' = NoStats
                     /\ cacheConfig' = cache_env
        ELSE /\ cache_id' = cache_id
             /\ cache_signature' = cache_signature ]_vars

\* a cache that held entries has been replaced by an empty one because
\* max_entries alone changed
C28_Witness ==
    /\ ret.op = "get_cache"
    /\ ret.dropped > 0
    /\ cache_id = 2
    /\ store = << >>
    /\ stats = NoStats
    /\ ttl_seconds = 2
    /\ max_entries = 1

\* the same cache is returned again with its entry and statistics
CacheRetainedWitness ==
    /\ ret.op = "get_cache"
    /\ cache_id = 1
    /\ Len(store) = 1
    /\ stats.sets = 1
    /\ stats.hits = 1

----------------------------------------------------------------------------
(* client.py and auth.py: the requests of one client method *)

MaxClients == 2

\* client methods run on one client, as the tools that call several do
MaxMethods == 2

\* the access tokens the token endpoint hands out
Tokens == 1..2

\* the methods with the $top retry, and one of the others
RetryMethods == { "preview_asset_data", "query_relational" }

Methods == RetryMethods \cup { "list_spaces" }

\* top, skip, select, filter_expr and order_by as the callers pass them
ArgChoices ==
    { [ top |-> Some(5), skip |-> 0, select |-> << >>, filter_expr |-> "", order_by |-> "" ],
      [ top |-> Some(5), skip |-> 2, select |-> << "A", "B" >>, filter_expr |-> "A eq 1", order_by |-> "" ],
      [ top |-> Absent, skip |-> 0, select |-> << >>, filter_expr |-> "", order_by |-> "A desc" ],
      [ top |-> Absent, skip |-> 0, select |-> << >>, filter_expr |-> "", order_by |-> "" ] }

ConfigChoices ==
    { [ tenant_url |-> TRUE, oauth |-> TRUE ],
      [ tenant_url |-> TRUE, oauth |-> FALSE ],
      [ tenant_url |-> FALSE, oauth |-> TRUE ] }

\* what comes back for a GET: a response with its status and whether its text
\* holds "Query option '$top' is not supported", or httpx.RequestError
Responses ==
    [ kind : { "response" }, status : { 200, 400, 404 }, top_unsupported : BOOLEAN ]
      \cup { [ kind |-> "request_error", status |-> 0, top_unsupported |-> FALSE ] }

\* what comes back for the POST to the token URL
TokenResponses ==
    [ status : { 200 }, access_token : { Some(t) : t \in Tokens } \cup { Absent } ]
      \cup { [ status |-> 401, access_token |-> Absent ] }

\* the params dict of preview_asset_data and query_relational, in insertion order
BuildParams(method, a) ==
    (IF a.top # Absent THEN << << "$top", a.top[1] >> >> ELSE << >>)
      \o (IF method = "query_relational" /\ a.skip # 0
          THEN << << "$skip", a.skip >> >> ELSE << >>)
      \o (IF a.select # << >> THEN << << "$select", a.select >> >> ELSE << >>)
      \o (IF a.filter_expr # "" THEN << << "$filter", a.filter_expr >> >> ELSE << >>)
      \o (IF a.order_by # "" THEN << << "$orderby", a.order_by >> >> ELSE << >>)

\* "$top" in params
HasTop(params) == \E i \in 1..Len(params) : params[i][1] = "$top"

\* params.pop("$top", None)
PopTop(params) == SelectSeq(params, LAMBDA kv : kv[1] # "$top")

\* params or None
OrNone(params) == IF params = << >> THEN Absent ELSE Some(params)

\* the retry is sent on any 400
RetryOnAny400(method, response, params) ==
    /\ method \in { "preview_asset_data", "query_relational" }
    /\ response.kind = "response"
    /\ response.status = 400
    /\ (method = "query_relational" => \E i \in 1..Len(params) : params[i][1] = "$top")

\* the condition under which the request is sent again
Retry(method, response, params) ==
    /\ method \in RetryMethods
    /\ response.kind = "response"
    /\ response.status = 400
    /\ response.top_unsupported
    /\ (method = "query_relational" => HasTop(params))

\* the process has started, no tool has run
ClientInit ==
    /\ config \in ConfigChoices
    /\ clients = 0
    /\ cached_token = Absent
    /\ token_posts = 0
    /\ tokens = << >>
    /\ call = NoCall
    /\ ProfileOff
    /\ max_rows_profile = MaxRowsProfileDefault
    /\ ToolsIdle /\ CacheIdle /\ PluginsIdle /\ GetCacheIdle /\ DiagIdle /\ InfoIdle
    /\ FindIdle

\* a tool starts: client = _make_client()
MakeClient ==
    /\ call.pc = "idle"
    /\ clients < MaxClients
    /\ clients' = clients + 1
    /\ cached_token' = Absent
    /\ call' = NoCall
    /\ UNCHANGED << config, token_posts, tokens, clientFrame >>

\* the method ends, by return or by an exception
Finish(outcome, responses) ==
    call' = [ call EXCEPT !.pc = "idle", !.outcome = outcome,
                          !.responses = responses, !.methods = @ + 1 ]

\* the tool calls a method of its client, which checks tenant_url first
CallMethod(method, a) ==
    /\ call.pc = "idle"
    /\ clients > 0
    /\ call.methods < MaxMethods
    /\ (method \in RetryMethods \/ a = CHOOSE x \in ArgChoices : x.top = Absent /\ x.order_by = "")
    /\ LET started == [ NoCall EXCEPT !.method = method, !.args = a,
                                      !.methods = call.methods ]
       IN  IF config.tenant_url
           THEN call' = [ started EXCEPT !.pc = "token" ]
           ELSE call' = [ started EXCEPT !.outcome = "RuntimeError", !.methods = @ + 1 ]
    /\ UNCHANGED << config, clients, cached_token, token_posts, tokens, clientFrame >>

\* get_access_token() with a cached token
GetAccessTokenCached ==
    /\ call.pc = "token"
    /\ cached_token # Absent
    /\ call' = [ call EXCEPT !.pc = "ready", !.token = cached_token ]
    /\ UNCHANGED << config, clients, cached_token, token_posts, tokens, clientFrame >>

\* get_access_token() without the OAuth settings
GetAccessTokenIncomplete ==
    /\ call.pc = "token"
    /\ cached_token = Absent
    /\ ~config.oauth
    /\ Finish("RuntimeError", << >>)
    /\ UNCHANGED << config, clients, cached_token, token_posts, tokens, clientFrame >>

\* get_access_token() posts to the token URL
TokenPost ==
    /\ call.pc = "token"
    /\ cached_token = Absent
    /\ config.oauth
    /\ token_posts' = token_posts + 1
    /\ call' = [ call EXCEPT !.pc = "token_wait" ]
    /\ UNCHANGED << config, clients, cached_token, tokens, clientFrame >>

\* the token URL answers
TokenResponse(r) ==
    /\ call.pc = "token_wait"
    /\ IF r.status = 200 /\ r.access_token # Absent
       THEN /\ cached_token' = r.access_token
            /\ tokens' = Append(tokens, r.access_token[1])
            /\ call' = [ call EXCEPT !.pc = "ready", !.token = r.access_token ]
       ELSE /\ Finish("RuntimeError", << >>)
            /\ UNCHANGED << cached_token, tokens >>
    /\ UNCHANGED << config, clients, token_posts, clientFrame >>

\* the first GET
SendFirst ==
    /\ call.pc = "ready"
    /\ LET params == IF call.method \in RetryMethods
                     THEN BuildParams(call.method, call.args) ELSE << >>
       IN  call' = [ call EXCEPT !.pc = "first", !.params = params,
                                 !.requests = << OrNone(params) >> ]
    /\ UNCHANGED << config, clients, cached_token, token_posts, tokens, clientFrame >>

\* how the method ends on its last response
Outcome(response) ==
    IF response.kind = "request_error" \/ response.status >= 400
    THEN "RuntimeError" ELSE "returned"

\* the first response: the request is sent again without $top, or the method ends
FirstResponse(response) ==
    /\ call.pc = "first"
    /\ IF Retry(call.method, response, call.params)
       THEN LET params == PopTop(call.params)
            IN  call' = [ call EXCEPT !.pc = "second", !.params = params,
                                      !.requests = Append(@, OrNone(params)),
                                      !.responses = << response >> ]
       ELSE Finish(Outcome(response), << response >>)
    /\ UNCHANGED << config, clients, cached_token, token_posts, tokens, clientFrame >>

\* the second response ends the method
SecondResponse(response) ==
    /\ call.pc = "second"
    /\ Finish(Outcome(response), Append(call.responses, response))
    /\ UNCHANGED << config, clients, cached_token, token_posts, tokens, clientFrame >>

ClientNext ==
    \/ MakeClient
    \/ \E method \in Methods, a \in ArgChoices : CallMethod(method, a)
    \/ GetAccessTokenCached
    \/ GetAccessTokenIncomplete
    \/ TokenPost
    \/ \E r \in TokenResponses : TokenResponse(r)
    \/ SendFirst
    \/ \E response \in Responses : FirstResponse(response)
    \/ \E response \in Responses : SecondResponse(response)

\* the tools' clients, one per tool call, and the requests they send
ClientSpec == ClientInit /\ [][ClientNext]_vars

----------------------------------------------------------------------------
(* The requests of one call: C23 *)

\* the query options of a request, none for params=None
OptionsOf(request) == IF request = Absent THEN { } ELSE Range(request[1])

\* C23: a call of preview_asset_data or query_relational sends at most two
\* requests to the consumption endpoint; a second one is sent only after a first
\* response of HTTP 400 whose text holds "Query option '$top' is not supported",
\* it carries the options of the first except $top, and whatever the second
\* response is the call ends with it.
C23_AtMostOneRetry ==
    /\ Len(call.requests) <= 2
    /\ Len(call.responses) <= Len(call.requests)
    /\ call.pc = "second" => Len(call.requests) = 2 /\ Len(call.responses) = 1
    /\ Len(call.requests) = 2 =>
          /\ call.method \in RetryMethods
          /\ call.responses[1].kind = "response"
          /\ call.responses[1].status = 400
          /\ call.responses[1].top_unsupported
          /\ OptionsOf(call.requests[2]) =
                { kv \in OptionsOf(call.requests[1]) : kv[1] # "$top" }
          /\ Len(call.responses) = 2 => call.pc = "idle" /\ call.outcome # ""

\* query_relational has sent $top and $skip, then $skip alone, and the second
\* response, again HTTP 400 about $top, has ended the call
C23_Witness ==
    /\ call.pc = "idle"
    /\ call.method = "query_relational"
    /\ Len(call.requests) = 2
    /\ \E kv \in OptionsOf(call.requests[1]) : kv[1] = "$top"
    /\ \E kv \in OptionsOf(call.requests[2]) : kv[1] = "$skip"
    /\ Len(call.responses) = 2
    /\ call.responses[2].status = 400
    /\ call.responses[2].top_unsupported
    /\ call.outcome = "RuntimeError"

\* preview_asset_data called with top=None repeats its request unchanged
PreviewRepeatedWithoutTopWitness ==
    /\ call.method = "preview_asset_data"
    /\ call.args.top = Absent
    /\ Len(call.requests) = 2
    /\ call.requests[1] = call.requests[2]

----------------------------------------------------------------------------
(* The access token: C22 *)

TokenCachedPerClient ==
    [][ (cached_token # Absent /\ clients' = clients) =>
          /\ token_posts' = token_posts
          /\ cached_token' = cached_token
          /\ call'.token # Absent => call'.token = cached_token ]_vars

\* the second method of a tool call has got the token of the first from the cache
TokenReusedWitness ==
    /\ clients = 1
    /\ token_posts = 1
    /\ call.methods = 1
    /\ call.pc = "ready"
    /\ call.token = Some(tokens[1])

\* the second tool call has asked the token URL again and got another token
SecondTokenRequestWitness ==
    /\ clients = 2
    /\ token_posts = 2
    /\ Len(tokens) = 2
    /\ tokens[1] # tokens[2]
    /\ call.token = Some(tokens[2])

----------------------------------------------------------------------------
(* tasks.py: diagnostics() step by step *)

\* what a client of diagnostics raises: the RuntimeError of client.py, the
\* errors of the fake clients of the tests
BackendErrors == { "RuntimeError", "TimeoutError" }

\* except Exception, as diagnostics has it around each check
CaughtByDiagnostics(exc) == exc \in { "RuntimeError", "TimeoutError", "ValueError" }

\* what client.ping() does: a truthy result, a falsy one, an exception
PingOutcomes ==
    { [ raised |-> "", value |-> TRUE ], [ raised |-> "", value |-> FALSE ] }
      \cup { [ raised |-> exc, value |-> FALSE ] : exc \in BackendErrors }

\* what client.list_spaces() does: so many spaces, or an exception
ListSpacesOutcomes ==
    { [ raised |-> "", count |-> n ] : n \in 0..1 }
      \cup { [ raised |-> exc, count |-> 0 ] : exc \in BackendErrors }

\* _make_error(code, message)
MakeError(code, message) == Some([ code |-> code, message |-> message ])

\* the last check decides
OverallLast(so_far, check) == check.ok

\* overall_ok after a check: set to False by a failed one, else left as it is
Overall(so_far, check) == IF check.ok THEN so_far ELSE FALSE

\* the plugins entry of meta
PluginsInfo ==
    LET status == GetPluginStatus(plugin_status)
    IN  [ configured |-> GetConfiguredPlugins(plugins_env),
          loaded |-> Cardinality({ k \in 1..Len(status) : status[k].ok }),
          failed |-> Cardinality({ k \in 1..Len(status) : ~status[k].ok }),
          plugins |-> status ]

\* the dict diagnostics returns, the cache statistics apart
DiagResult(ok, cs) ==
    Some([ ok |-> ok, mock_mode |-> mock_mode, checks |-> cs, plugins |-> PluginsInfo ])

\* diagnostics() up to its first await: the cache is purged, the client is
\* made; without a client the call returns with the one failed check
DiagnosticsStart(made) ==
    /\ diag_pc \in { "idle", "returned" }
    /\ ops < MaxOps
    /\ LET g == PurgeExpired(store, stats, now)
           check == IF made
                    THEN [ name |-> "client_init", ok |-> TRUE, error |-> Absent ]
                    ELSE [ name |-> "client_init", ok |-> FALSE,
                           error |-> MakeError("CONFIG_ERROR", "ValueError") ]
       IN  /\ store' = g.store
           /\ stats' = g.stats
           /\ checks' = << check >>
           /\ overall_ok' = Overall(TRUE, check)
           /\ IF made
              THEN /\ diag_pc' = "ping"
                   /\ diag_out' = Absent
                   /\ diag' = Absent
              ELSE /\ diag_pc' = "returned"
                   /\ diag_out' = DiagResult(FALSE, << check >>)
                   /\ diag' = Some(Stats(g.store, g.stats))
    /\ ret' = [ op |-> "diagnostics", key |-> "", value |-> Absent ]
    /\ ops' = ops + 1
    /\ UNCHANGED << now, cacheConfig, listing, backend_calls, diagFrame >>

\* await client.ping() is over
PingAnswers(outcome) ==
    /\ diag_pc = "ping"
    /\ IF outcome.raised # "" /\ ~CaughtByDiagnostics(outcome.raised)
       THEN /\ diag_pc' = "raised"
            /\ UNCHANGED << checks, overall_ok >>
       ELSE LET check ==
                  IF outcome.raised # ""
                  THEN [ name |-> "ping", ok |-> FALSE,
                         error |-> MakeError("BACKEND_ERROR", outcome.raised) ]
                  ELSE IF outcome.value
                  THEN [ name |-> "ping", ok |-> TRUE, error |-> Absent ]
                  ELSE [ name |-> "ping", ok |-> FALSE,
                         error |-> MakeError("BACKEND_ERROR", "Ping returned a falsy result.") ]
            IN  /\ checks' = Append(checks, check)
                /\ overall_ok' = Overall(overall_ok, check)
                /\ diag_pc' = "list_spaces"
    /\ UNCHANGED << diag_out, cacheVars, diagFrame >>

\* await client.list_spaces() is over, and the call returns
ListSpacesAnswers(outcome) ==
    /\ diag_pc = "list_spaces"
    /\ IF outcome.raised # "" /\ ~CaughtByDiagnostics(outcome.raised)
       THEN /\ diag_pc' = "raised"
            /\ UNCHANGED << checks, overall_ok, diag_out, diag >>
       ELSE LET check ==
                  IF outcome.raised # ""
                  THEN [ name |-> "list_spaces", ok |-> FALSE,
                         error |-> MakeError("BACKEND_ERROR", outcome.raised) ]
                  ELSE [ name |-> "list_spaces", ok |-> TRUE, count |-> outcome.count,
                         error |-> Absent ]
            IN  /\ checks' = Append(checks, check)
                /\ overall_ok' = Overall(overall_ok, check)
                /\ diag_pc' = "returned"
                /\ diag_out' = DiagResult(overall_ok', checks')
                /\ diag' = Some(Stats(store, stats))
    /\ UNCHANGED << now, cacheConfig, store, stats, ret, listing, backend_calls, ops >>
    /\ UNCHANGED diagFrame

DiagNext ==
    \/ \E made \in BOOLEAN : DiagnosticsStart(made)
    \/ \E outcome \in PingOutcomes : PingAnswers(outcome)
    \/ \E outcome \in ListSpacesOutcomes : ListSpacesAnswers(outcome)
    \/ \E key \in OtherKeys : CacheSet(key, AssetsOut)
    \/ Tick

\* diagnostics calls, one after the other, while other tools fill the cache
DiagSpec == CacheInit /\ [][DiagNext]_vars

\* C24: diagnostics does not raise when the backend fails; with a client made
\* it records client_init, ping and list_spaces in this order, list_spaces
\* also after a ping that failed or raised, and the ok it returns is true
\* exactly when every recorded check is ok.
C24_DiagnosticsChecks ==
    /\ diag_pc # "raised"
    /\ diag_pc = "ping" => checks[1].ok /\ Len(checks) = 1
    /\ diag_pc = "list_spaces" => Len(checks) = 2
    /\ diag_pc = "returned" =>
          /\ diag_out # Absent
          /\ LET out == diag_out[1]
                 names == [ i \in 1..Len(out.checks) |-> out.checks[i].name ]
             IN  /\ out.checks = checks
                 /\ out.ok <=> \A i \in 1..Len(out.checks) : out.checks[i].ok
                 /\ IF out.checks[1].ok
                    THEN names = << "client_init", "ping", "list_spaces" >>
                    ELSE names = << "client_init" >>

\* ping has raised, list_spaces has answered all the same, and the call has
\* returned ok = False with the three checks
C24_Witness ==
    /\ diag_pc = "returned"
    /\ Len(checks) = 3
    /\ ~checks[2].ok
    /\ checks[2].error = MakeError("BACKEND_ERROR", "RuntimeError")
    /\ checks[3].ok
    /\ ~diag_out[1].ok

\* every check has passed and the call has returned ok = True
AllChecksPassWitness ==
    /\ diag_pc = "returned"
    /\ Len(checks) = 3
    /\ diag_out[1].ok
    /\ diag # Absent

----------------------------------------------------------------------------
(* tasks.py: _collect_tenant_info and get_tenant_info *)

MaxSearchResultsDefault == 200

\* bool(x) of an Optional[str]
Truthy(x) == x # Absent /\ x[1] # << >>

\* a or b
Or(a, b) == IF Truthy(a) THEN a ELSE b

\* s.find(c) + 1: the first place of c in s, 0 for none
FindChar(s, c) ==
    IF \E i \in 1..Len(s) : s[i] = c
    THEN CHOOSE i \in 1..Len(s) : s[i] = c /\ \A j \in 1..(i - 1) : s[j] # c
    ELSE 0

\* the last place of c in s, 0 for none
RFindChar(s, c) ==
    IF \E i \in 1..Len(s) : s[i] = c
    THEN CHOOSE i \in 1..Len(s) : s[i] = c /\ \A j \in (i + 1)..Len(s) : s[j] # c
    ELSE 0

IsAlpha(c) == c \in 65..90 \/ c \in 97..122

\* the characters urlsplit accepts in a scheme
IsSchemeChar(c) == IsAlpha(c) \/ IsDigit(c) \/ c \in { 43, 45, 46 }

\* urlparse(url).hostname
UrlHostname(url) ==
    LET colon    == FindChar(url, 58)
        schemed  == /\ colon > 1
                    /\ IsAlpha(url[1])
                    /\ \A i \in 1..(colon - 1) : IsSchemeChar(url[i])
        rest     == IF schemed THEN SubSeq(url, colon + 1, Len(url)) ELSE url
        slashed  == Len(rest) >= 2 /\ rest[1] = 47 /\ rest[2] = 47
        tail     == SubSeq(rest, 3, Len(rest))
        ends     == { i \in 1..Len(tail) : tail[i] \in { 47, 63, 35 } }
        netloc   == IF ~slashed THEN << >>
                    ELSE IF ends = { } THEN tail
                    ELSE SubSeq(tail, 1, (CHOOSE i \in ends : \A j \in ends : i <= j) - 1)
        hostinfo == SubSeq(netloc, RFindChar(netloc, 64) + 1, Len(netloc))
        port     == FindChar(hostinfo, 58)
        hostname == IF port = 0 THEN hostinfo ELSE SubSeq(hostinfo, 1, port - 1)
    IN  IF hostname = << >> THEN Absent ELSE Some(Lower(hostname))

\* host.split(".")
RECURSIVE SplitDots(_)
SplitDots(s) ==
    LET dot == FindChar(s, 46)
    IN  IF dot = 0 THEN << s >>
        ELSE << SubSeq(s, 1, dot - 1) >> \o SplitDots(SubSeq(s, dot + 1, Len(s)))

RegionPrefixes ==
    { << 101, 117 >>, << 117, 115 >>, << 97, 112 >>, << 115, 97 >>, << 106, 112 >>,
      << 99, 97 >>, << 97, 117 >> }

\* the first part of the host that starts like a region and holds a digit
RegionHint(host) ==
    LET parts == SplitDots(host)
        hits  == { k \in 1..Len(parts) :
                     /\ SubSeq(parts[k], 1, IF Len(parts[k]) < 2 THEN Len(parts[k]) ELSE 2)
                           \in RegionPrefixes
                     /\ \E i \in 1..Len(parts[k]) : IsDigit(parts[k][i]) }
    IN  IF hits = { } THEN Absent
        ELSE Some(parts[CHOOSE k \in hits : \A j \in hits : k <= j])

\* the value itself is reported
IsConfiguredEcho(value) == value

\* bool(client_id), bool(client_secret), bool(token_url)
IsConfigured(value) == Truthy(value)

\* _collect_tenant_info() in the environment env
CollectTenantInfo(env) ==
    LET tenant_url    == env.DATASPHERE_TENANT_URL
        token_url     == env.DATASPHERE_OAUTH_TOKEN_URL
        client_id     == Or(env.DATASPHERE_CLIENT_ID, env.DATASPHERE_OAUTH_CLIENT_ID)
        client_secret == Or(env.DATASPHERE_CLIENT_SECRET, env.DATASPHERE_OAUTH_CLIENT_SECRET)
        host   == IF Truthy(tenant_url)
                  THEN Or(UrlHostname(tenant_url[1]), tenant_url) ELSE Absent
        region == IF Truthy(host) THEN RegionHint(host[1]) ELSE Absent
    IN  [ tenant_url |-> tenant_url,
          host |-> host,
          region_hint |-> region,
          mock_mode |-> mock_mode,
          verify_tls |-> env.DATASPHERE_VERIFY_TLS,
          oauth |-> [ token_url_configured |-> IsConfigured(token_url),
                      client_id_configured |-> IsConfigured(client_id),
                      client_secret_configured |-> IsConfigured(client_secret) ],
          limits |-> [ max_rows_preview |-> max_rows_preview,
                       max_rows_query |-> max_rows_query,
                       max_rows_profile |-> max_rows_profile,
                       max_search_results |-> MaxSearchResultsDefault ],
          cache_config |-> [ ttl_seconds |-> cache_env[1], max_entries |-> cache_env[2] ] ]

\* unset, empty, or one of two values
IdChoices == { Absent, Some(<< >>), Some(<< 105, 100, 45, 49 >>), Some(<< 105, 100, 45, 50 >>) }

SecretChoices == { Absent, Some(<< 115, 49 >>), Some(<< 115, 50 >>) }

\* unset, https://T.eu10.sap, and t.us2.sap without a scheme
TenantUrlChoices ==
    { Absent,
      Some(<< 104, 116, 116, 112, 115, 58, 47, 47, 84, 46, 101, 117, 49, 48, 46, 115, 97, 112 >>),
      Some(<< 116, 46, 117, 115, 50, 46, 115, 97, 112 >>) }

\* unset or https://uaa/token
TokenUrlChoices ==
    { Absent,
      Some(<< 104, 116, 116, 112, 115, 58, 47, 47, 117, 97, 97, 47, 116, 111, 107, 101, 110 >>) }

Environments ==
    [ DATASPHERE_TENANT_URL : TenantUrlChoices,
      DATASPHERE_OAUTH_TOKEN_URL : TokenUrlChoices,
      DATASPHERE_CLIENT_ID : IdChoices,
      DATASPHERE_OAUTH_CLIENT_ID : { Absent, Some(<< 105, 100, 45, 49 >>) },
      DATASPHERE_CLIENT_SECRET : SecretChoices,
      DATASPHERE_OAUTH_CLIENT_SECRET : { Absent, Some(<< 115, 49 >>) },
      DATASPHERE_VERIFY_TLS : { TRUE } ]

\* two environments of one tenant, get_tenant_info not yet called in either
InfoInit ==
    /\ \E a \in Environments, b \in Environments :
          /\ a.DATASPHERE_TENANT_URL = b.DATASPHERE_TENANT_URL
          /\ envs = << a, b >>
    /\ infos = << Absent, Absent >>
    /\ ProfileOff
    /\ max_rows_profile = MaxRowsProfileDefault
    /\ ToolsIdle /\ CacheIdle /\ PluginsIdle /\ GetCacheIdle /\ ClientIdle /\ DiagIdle
    /\ FindIdle

\* get_tenant_info() in environment k
GetTenantInfo(k) ==
    /\ infos[k] = Absent
    /\ infos' = [ infos EXCEPT ![k] = Some(CollectTenantInfo(envs[k])) ]
    /\ UNCHANGED << envs, infoFrame >>

InfoNext == \E k \in 1..2 : GetTenantInfo(k)

\* get_tenant_info in two environments
InfoSpec == InfoInit /\ [][InfoNext]_vars

----------------------------------------------------------------------------
(* No secret in the tenant info: C21 *)

\* a client id is configured: one of its two variables is set and not empty
IdSet(env) ==
    \E v \in { env.DATASPHERE_CLIENT_ID, env.DATASPHERE_OAUTH_CLIENT_ID } :
       v # Absent /\ Len(v[1]) > 0

SecretSet(env) ==
    \E v \in { env.DATASPHERE_CLIENT_SECRET, env.DATASPHERE_OAUTH_CLIENT_SECRET } :
       v # Absent /\ Len(v[1]) > 0

\* the two environments agree in all but the client id and secret
SameButCredentials(a, b) ==
    /\ a.DATASPHERE_TENANT_URL = b.DATASPHERE_TENANT_URL
    /\ a.DATASPHERE_OAUTH_TOKEN_URL = b.DATASPHERE_OAUTH_TOKEN_URL
    /\ a.DATASPHERE_VERIFY_TLS = b.DATASPHERE_VERIFY_TLS

\* C21: what get_tenant_info returns depends on the client id and the client
\* secret only through whether each is configured: two environments that agree
\* in everything else and in which of the two is configured get the same output,
\* whatever the values are.
C21_NoSecretInTenantInfo ==
    (/\ infos # << >>
     /\ infos[1] # Absent
     /\ infos[2] # Absent
     /\ SameButCredentials(envs[1], envs[2])
     /\ IdSet(envs[1]) = IdSet(envs[2])
     /\ SecretSet(envs[1]) = SecretSet(envs[2]))
       => infos[1] = infos[2]

\* both environments have a client id and a secret configured, with different
\* values, and both calls have returned
C21_Witness ==
    /\ infos # << >>
    /\ infos[1] # Absent
    /\ infos[2] # Absent
    /\ SameButCredentials(envs[1], envs[2])
    /\ envs[1].DATASPHERE_CLIENT_ID = Some(<< 105, 100, 45, 49 >>)
    /\ envs[2].DATASPHERE_CLIENT_ID = Some(<< 105, 100, 45, 50 >>)
    /\ envs[1].DATASPHERE_CLIENT_SECRET = Some(<< 115, 49 >>)
    /\ envs[2].DATASPHERE_CLIENT_SECRET = Some(<< 115, 50 >>)
    /\ infos[1][1].oauth.client_id_configured
    /\ infos[1][1].oauth.client_secret_configured
    /\ infos[1][1].host = Some(<< 116, 46, 101, 117, 49, 48, 46, 115, 97, 112 >>)
    /\ infos[1][1].region_hint = Some(<< 101, 117, 49, 48 >>)

----------------------------------------------------------------------------
(* tasks.py: find_assets_by_column step by step *)

\* most of limit, max_spaces and max_assets_per_space
MaxFind == 2

\* column names: ID, X, Tc, TC, and the name asked for, tC
cID == << 73, 68 >>

cX == << 88 >>

cTc == << 84, 99 >>

cTC == << 84, 67 >>

ctC == << 116, 67 >>

\* an asset of the catalog; columns is Absent when its preview raises RuntimeError
CatalogAsset(id, columns) == [ id |-> id, name |-> id, columns |-> columns ]

\* catalogs: assets is Absent when list_space_assets raises RuntimeError
Catalogs ==
    { << [ id |-> "S1", assets |-> Some(<< CatalogAsset("A1", Absent),
                                          CatalogAsset("A2", Some(<< cID, cTc, cTC >>)),
                                          CatalogAsset("A3", Some(<< cTC >>)) >>) ],
         [ id |-> "S2", assets |-> Some(<< CatalogAsset("A1", Some(<< cID, cX >>)),
                                          CatalogAsset("B1", Some(<< cX, cTc >>)) >>) ] >>,
      << [ id |-> "S1", assets |-> Some(<< >>) ],
         [ id |-> "S2", assets |-> Some(<< CatalogAsset("B1", Some(<< cTc >>)) >>) ],
         [ id |-> "S3", assets |-> Some(<< CatalogAsset("C1", Some(<< cTC, cID >>)) >>) ] >>,
      << [ id |-> "S1", assets |-> Some(<< CatalogAsset("A1", Some(<< cTc >>)) >>) ],
         [ id |-> "S2", assets |-> Absent ] >> }

FindArgs ==
    [ column_name : { ctC },
      space_id : { Absent, Some(""), Some("S2") },
      limit : 0..MaxFind,
      max_spaces : 0..MaxFind,
      max_assets_per_space : 0..MaxFind ]

\* the column must be spelled as asked for
MatchesExactly(col_name, wanted) == col_name = wanted

\* col_name.lower() == target, target being column_name.lower()
Matches(col_name, wanted) == Lower(col_name) = Lower(wanted)

\* the dict the call returns
FindResult(f) ==
    [ space_id |-> f.args.space_id,
      column_name |-> f.args.column_name,
      limit |-> f.args.limit,
      results |-> f.results,
      stats |-> [ spaces_scanned |-> f.spaces_scanned,
                  assets_scanned |-> f.assets_scanned,
                  max_spaces |-> f.args.max_spaces,
                  max_assets_per_space |-> f.args.max_assets_per_space ] ]

FindReturned(f) == [ f EXCEPT !.pc = "returned", !.out = Some(FindResult(f)) ]

\* scan_space(sid) up to its await: nothing to do with limit results, else
\* list_space_assets is called
ScanSpace(f, sid, after) ==
    IF Len(f.results) >= f.args.limit
    THEN after
    ELSE [ f EXCEPT !.pc = "list_space_assets", !.sid = sid ]

\* for s in spaces, from the space at f.si on
SpaceLoop(f) ==
    IF f.si > Len(f.spaces)
       \/ f.spaces_scanned >= f.args.max_spaces
       \/ Len(f.results) >= f.args.limit
    THEN FindReturned(f)
    ELSE ScanSpace(f, f.spaces[f.si], FindReturned(f))

\* scan_space has run to its end
AfterScan(f) ==
    IF f.by_list THEN SpaceLoop([ f EXCEPT !.si = @ + 1 ]) ELSE FindReturned(f)

\* for a in assets, from the asset at f.ai on
AssetLoop(f) ==
    IF f.ai > Len(f.assets)
       \/ f.checked_in_space >= f.args.max_assets_per_space
       \/ Len(f.results) >= f.args.limit
    THEN AfterScan(f)
    ELSE [ f EXCEPT !.pc = "preview_asset_data", !.checked_in_space = @ + 1,
                    !.previews = Append(@, << f.sid, f.assets[f.ai].id >>) ]

\* the assets of a space, as the catalog has them
AssetsOf(sid) ==
    LET k == CHOOSE k \in 1..Len(catalog) : catalog[k].id = sid
    IN  catalog[k].assets

FindInit ==
    /\ catalog \in Catalogs
    /\ find = [ pc |-> "idle" ]
    /\ ProfileOff
    /\ max_rows_profile = MaxRowsProfileDefault
    /\ ToolsIdle /\ CacheIdle /\ PluginsIdle /\ GetCacheIdle /\ ClientIdle /\ DiagIdle
    /\ InfoIdle

\* find_assets_by_column(...) up to its first await
FindAssetsByColumnCall(a) ==
    /\ find.pc = "idle"
    /\ LET f == [ pc |-> "start", args |-> a, by_list |-> ~(a.space_id # Absent /\ a.space_id[1] # ""),
                  spaces |-> << >>, si |-> 0, sid |-> "", assets |-> << >>, ai |-> 0,
                  checked_in_space |-> 0, results |-> << >>, spaces_scanned |-> 0,
                  assets_scanned |-> 0, listed |-> << >>, previews |-> << >>,
                  out |-> Absent ]
       IN  find' = IF f.by_list
                   THEN [ f EXCEPT !.pc = "list_spaces" ]
                   ELSE ScanSpace(f, a.space_id[1], FindReturned(f))
    /\ UNCHANGED << catalog, findFrame >>

\* await client.list_spaces() is over
FindListSpacesReturns ==
    /\ find.pc = "list_spaces"
    /\ find' = SpaceLoop([ find EXCEPT !.spaces = [ k \in 1..Len(catalog) |-> catalog[k].id ],
                                       !.si = 1 ])
    /\ UNCHANGED << catalog, findFrame >>

\* await client.list_space_assets(sid) is over
FindListAssetsReturns ==
    /\ find.pc = "list_space_assets"
    /\ AssetsOf(find.sid) # Absent
    /\ find' = AssetLoop([ find EXCEPT !.assets = AssetsOf(find.sid)[1], !.ai = 1,
                                       !.checked_in_space = 0,
                                       !.spaces_scanned = @ + 1,
                                       !.listed = Append(@, find.sid) ])
    /\ UNCHANGED << catalog, findFrame >>

\* client.list_space_assets(sid) raises, and so does the call
FindListAssetsRaises ==
    /\ find.pc = "list_space_assets"
    /\ AssetsOf(find.sid) = Absent
    /\ find' = [ find EXCEPT !.pc = "raised" ]
    /\ UNCHANGED << catalog, findFrame >>

\* await client.preview_asset_data(sid, a.id, top=1) is over
FindPreviewReturns ==
    /\ find.pc = "preview_asset_data"
    /\ LET a    == find.assets[find.ai]
           cols == a.columns[1]
           hits == { i \in 1..Len(cols) : Matches(cols[i], find.args.column_name) }
           res  == IF hits = { } THEN find.results
                   ELSE Append(find.results,
                               [ space_id |-> find.sid, asset_id |-> a.id,
                                 asset_name |-> a.name,
                                 column_name |-> cols[CHOOSE i \in hits : \A j \in hits : i <= j],
                                 column_count |-> Len(cols) ])
       IN  /\ a.columns # Absent
           /\ find' = AssetLoop([ find EXCEPT !.assets_scanned = @ + 1, !.results = res,
                                              !.ai = @ + 1 ])
    /\ UNCHANGED << catalog, findFrame >>

\* client.preview_asset_data raises RuntimeError: continue
FindPreviewRaises ==
    /\ find.pc = "preview_asset_data"
    /\ find.assets[find.ai].columns = Absent
    /\ find' = AssetLoop([ find EXCEPT !.ai = @ + 1 ])
    /\ UNCHANGED << catalog, findFrame >>

FindNext ==
    \/ \E a \in FindArgs : FindAssetsByColumnCall(a)
    \/ FindListSpacesReturns
    \/ FindListAssetsReturns
    \/ FindListAssetsRaises
    \/ FindPreviewReturns
    \/ FindPreviewRaises

\* one find_assets_by_column call on a catalog
FindSpec == FindInit /\ [][FindNext]_vars

----------------------------------------------------------------------------
(* The scan of find_assets_by_column: C27 *)

\* two names that differ at most in the case of their letters
SameIgnoringCase(a, b) ==
    /\ Len(a) = Len(b)
    /\ \A i \in 1..Len(a) :
          \/ a[i] = b[i]
          \/ IsAlpha(a[i]) /\ IsAlpha(b[i]) /\ (a[i] - b[i] = 32 \/ b[i] - a[i] = 32)

\* the (space, asset) pairs of the results
Reported == { << find.results[i].space_id, find.results[i].asset_id >> :
                i \in 1..Len(find.results) }

\* the assets previewed in a space, in the order of the requests
PreviewedIn(sid) ==
    LET mine == SelectSeq(find.previews, LAMBDA p : p[1] = sid)
    IN  [ i \in 1..Len(mine) |-> mine[i][2] ]

IsPrefix(p, s) == Len(p) <= Len(s) /\ SubSeq(s, 1, Len(p)) = p

SpaceIds == [ k \in 1..Len(catalog) |-> catalog[k].id ]

AssetIds(sid) == [ j \in 1..Len(AssetsOf(sid)[1]) |-> AssetsOf(sid)[1][j].id ]

\* limit results are in
Full == Len(find.results) >= find.args.limit

\* what the claim says of matches, previews, and failing previews
ScanAsClaimed ==
    /\ find.pc = "raised" => AssetsOf(find.sid) = Absent
    /\ find.pc = "returned" =>
          /\ find.out # Absent /\ find.out[1].results = find.results
          /\ Len(find.results) <= find.args.limit
          /\ Cardinality(Reported) = Len(find.results)
          /\ \A k \in 1..Len(find.listed) :
                LET sid  == find.listed[k]
                    seen == PreviewedIn(sid)
                IN  /\ Len(seen) <= find.args.max_assets_per_space
                    /\ IsPrefix(seen, AssetIds(sid))
                    /\ \/ seen = AssetIds(sid)
                       \/ Len(seen) = find.args.max_assets_per_space
                       \/ Full
                    /\ \A j \in 1..Len(AssetIds(sid)) :
                          LET a == AssetsOf(sid)[1][j]
                          IN  << sid, a.id >> \in Reported
                                <=> /\ j <= Len(seen)
                                    /\ a.columns # Absent
                                    /\ \E i \in 1..Len(a.columns[1]) :
                                          SameIgnoringCase(a.columns[1][i],
                                                           find.args.column_name)
          /\ \A r \in Reported : \E k \in 1..Len(find.listed) : find.listed[k] = r[1]

\* the spaces of the list are scanned in list order until max_spaces are
\* scanned or limit results are in
ListScanAsClaimed ==
    (find.pc = "returned" /\ find.by_list) =>
       /\ IsPrefix(find.listed, SpaceIds)
       /\ \/ find.listed = SpaceIds
          \/ Len(find.listed) = find.args.max_spaces
          \/ Full

SpaceIdBeyondMaxSpacesWitness ==
    /\ find.pc = "returned"
    /\ find.args.space_id = Some("S2")
    /\ find.args.max_spaces = 0
    /\ find.spaces_scanned = 1
    /\ Len(find.results) = 1

====
